---------------------------- MODULE Spec2Model ----------------------------
(***************************************************************************)
(* A model of the TypeScript SDK (ts/src): the facade client InboxSDK, the *)
(* transport adapter HTTPClient, the two services EmailAddressService and  *)
(* EmailService, and the error classes of errors.ts.                       *)
(*                                                                         *)
(* One call of a public operation is in progress at a time.  A call starts *)
(* with the synchronous part of the operation (validation, construction of *)
(* the request, the merge with the defaults of the axios instance) and     *)
(* returns a promise; the request interceptor, the response interceptor,   *)
(* the continuations of the methods and that of the caller each run in a   *)
(* callback of their own.                                                  *)
(***************************************************************************)
EXTENDS Integers, Sequences, FiniteSets, TLC

VARIABLES
    pc,        \* the current call: "idle", "awaiting" its request, "intercepted",
               \* "unwrapped", "settled" (its promise is), "returned" or
               \* "raised" (the caller has the outcome); "unconstructed"
               \* before `new InboxSDK(config)` or `new HTTPClient(config)`
    op,        \* the public operation of the current call, "none" when idle
    input,     \* the argument(s) the caller passed
    sent,      \* number of requests the current call has handed to axios
    queued,    \* the request config axios merged when the call was made, until
               \* the request interceptor has run; None otherwise
    request,   \* the request handed to the network, None before any
    outcome,   \* what the network delivered for the request, or what axios
               \* rejected it with, None before
    thrown,    \* the error the transport adapter rejected with, None if none
    error,     \* the error that reached the caller, None if none
    result,    \* the value returned to the caller, None if none
    now,       \* the value `new Date()` had for the current call, None if unread
    client,    \* the HTTPClient: its config and its axios defaults, None before
    previous   \* X-Request-ID of the client's request before the current
               \* call, None if there was none

vars == <<pc, op, input, sent, queued, request, outcome, thrown, error, result,
          now, client, previous>>

-----------------------------------------------------------------------------
(* JavaScript values.  Each value is a record tagged with `t`; the payload  *)
(* field differs per tag so that values of different types never compare a  *)
(* string with a number.                                                    *)

None == [t |-> "none"]
Undef == [t |-> "undefined"]
Null == [t |-> "null"]
NaNv == [t |-> "nan"]
Str(s) == [t |-> "string", s |-> s]
Num(n) == [t |-> "number", n |-> n]
Bool(b) == [t |-> "boolean", b |-> b]
Obj(f) == [t |-> "object", f |-> f]
Arr(a) == [t |-> "array", a |-> a]
Buf(bytes) == [t |-> "buffer", bytes |-> bytes]
DateV(ms) == [t |-> "date", ms |-> ms, sub |-> 0]

\* A property the object does not have, and what reading the property gives.
Missing == [t |-> "missing"]
Prop(v) == IF v = Missing THEN Undef ELSE v

\* JavaScript's ToBoolean.
Truthy(x) ==
    CASE x.t \in {"undefined", "null", "nan"} -> FALSE
      [] x.t = "string" -> x.s # ""
      [] x.t = "number" -> x.n # 0
      [] x.t = "boolean" -> x.b
      [] OTHER -> TRUE

\* JavaScript's typeof.
TypeOf(x) ==
    CASE x.t = "undefined" -> "undefined"
      [] x.t = "string" -> "string"
      [] x.t \in {"number", "nan", "scaled", "infinity"} -> "number"
      [] x.t = "boolean" -> "boolean"
      [] OTHER -> "object"

\* a || b
OrElse(a, b) == IF Truthy(a) THEN a ELSE b

-----------------------------------------------------------------------------
(* errors.ts: the error classes.  An error is a record of the properties    *)
(* the class sets; a property the class does not set is undefined.          *)

MaylError(kind, code, statusCode, message, requestId) ==
    [kind |-> kind, code |-> code, statusCode |-> statusCode,
     message |-> message, requestId |-> requestId,
     field |-> Undef, retryAfter |-> Undef]

AuthenticationError(message, requestId) ==
    MaylError("AuthenticationError", "AUTHENTICATION_ERROR", Num(401), message, requestId)

AuthorizationError(message, requestId) ==
    MaylError("AuthorizationError", "AUTHORIZATION_ERROR", Num(403), message, requestId)

NotFoundError(resource, id, requestId) ==
    MaylError("NotFoundError", "NOT_FOUND_ERROR", Num(404),
              IF Truthy(id) THEN resource \o " with ID '" \o id.s \o "' not found"
                            ELSE resource \o " not found",
              requestId)

ValidationError(message, field, requestId) ==
    [MaylError("ValidationError", "VALIDATION_ERROR", Num(400), message, requestId)
        EXCEPT !.field = field]

RateLimitError(message, retryAfter, requestId) ==
    [MaylError("RateLimitError", "RATE_LIMIT_ERROR", Num(429), message, requestId)
        EXCEPT !.retryAfter = retryAfter]

NetworkError(message, requestId) ==
    MaylError("NetworkError", "NETWORK_ERROR", Num(0), message, requestId)

\* statusCode: number = 500
ServerError(message, statusCode, requestId) ==
    MaylError("ServerError", "SERVER_ERROR",
              IF statusCode = Undef THEN Num(500) ELSE statusCode,
              message, requestId)

TimeoutError(message, requestId) ==
    MaylError("TimeoutError", "TIMEOUT_ERROR", Num(408), message, requestId)

EmailAddressError(message, requestId) ==
    MaylError("EmailAddressError", "EMAIL_ADDRESS_ERROR", Num(400), message, requestId)

EmailSendError(message, requestId) ==
    MaylError("EmailSendError", "EMAIL_SEND_ERROR", Num(400), message, requestId)

\* An exception of the JavaScript runtime, not a MaylError: reading a property
\* of undefined or null, calling what is not a function (TypeError), or
\* Date.prototype.toISOString on an invalid date (RangeError).
RuntimeError(kind, message) ==
    [kind |-> kind, code |-> Undef, statusCode |-> Undef,
     message |-> message, requestId |-> Undef,
     field |-> Undef, retryAfter |-> Undef]

\* The closed taxonomy of errors.ts, by class name.
Taxonomy ==
    {"AuthenticationError", "AuthorizationError", "NotFoundError",
     "ValidationError", "RateLimitError", "NetworkError", "ServerError",
     "TimeoutError", "EmailAddressError", "EmailSendError"}

-----------------------------------------------------------------------------
(* Strings whose characters the code inspects (the retry-after header, a    *)
(* number given as a string, a recipient's address) are given by their      *)
(* characters, so that parsing and matching them is computed, not assumed.  *)


\* The strings ss[lo] to ss[hi] in one.
RECURSIVE JoinRange(_, _, _)
JoinRange(ss, lo, hi) ==
    IF lo > hi THEN ""
    ELSE IF lo = hi THEN ss[lo]
    ELSE JoinRange(ss, lo, (lo + hi) \div 2) \o JoinRange(ss, ((lo + hi) \div 2) + 1, hi)

\* The characters cs in one string.
Join(cs) == JoinRange(cs, 1, Len(cs))

\* The string with characters cs.
CStr(cs) == [t |-> "string", s |-> Join(cs), cs |-> cs]

\* The characters of the text s.
Chars(s) == [i \in 1..Len(s) |-> SubSeq(s, i, i)]

Take(cs, n) == SubSeq(cs, 1, n)

Drop(cs, n) == SubSeq(cs, n + 1, Len(cs))

\* String.prototype.includes
Includes(s, part) ==
    \E i \in 1..(Len(s) - Len(part) + 1) : SubSeq(s, i, i + Len(part) - 1) = part

\* The characters with codes 1 to 31, 32 to 95, 96 (the grave accent, which
\* can be written only with an apostrophe behind it), 97 to 126, 127, and 128
\* to 255, in order.  The character with code 0 cannot be written in a string
\* of this module and has no place in it.
Control == "\t\n\f\r"

AsciiLow ==
    " !\"#$%&'()*+,-./0123456789:;<=>?@ABCDEFGHIJKLMNOPQRSTUVWXYZ[\\]^_"

Grave == SubSeq("`'", 1, 1)

AsciiHigh == "abcdefghijklmnopqrstuvwxyz{|}~"

Delete == ""

Latin1 == " ¡¢£¤¥¦§¨©ª«¬­®¯°±²³´µ¶·¸¹º»¼½¾¿ÀÁÂÃÄÅÆÇÈÉÊËÌÍÎÏÐÑÒÓÔÕÖ×ØÙÚÛÜÝÞßàáâãäåæçèéêëìíîïðñòóôõö÷øùúûüýþÿ"

CodeTable == Control \o AsciiLow \o Grave \o AsciiHigh \o Delete \o Latin1

\* U+1680, U+FEFF and U+FFFD, the replacement character.
OghamSpace == " "

ByteOrderMark == "﻿"

Replacement == "�"

\* The code point of a character.  The strings of this module hold the
\* characters U+0001 to U+00FF and the three above; no other character is
\* given a code.
CharCode(c) ==
    CASE c = OghamSpace -> 5760
      [] c = ByteOrderMark -> 65279
      [] c = Replacement -> 65533
      [] \E i \in 1..255 : SubSeq(CodeTable, i, i) = c ->
            CHOOSE i \in 1..255 : SubSeq(CodeTable, i, i) = c

\* The character with code point b.
CharOf(b) ==
    CASE b \in 1..255 -> SubSeq(CodeTable, b, b)
      [] b = 5760 -> OghamSpace
      [] b = 65279 -> ByteOrderMark
      [] b = 65533 -> Replacement

\* White space and line terminators (\s of a regular expression, what trim,
\* parseInt, ToNumber and Date.parse skip): U+0009 to U+000D, U+0020, U+00A0,
\* U+1680 and U+FEFF.  The others (U+2000 to U+200A, U+2028, U+2029, U+202F,
\* U+205F, U+3000) cannot be written in a string of this module.
WhiteSpace ==
    {CharOf(9), CharOf(10), CharOf(11), CharOf(12), CharOf(13), " ",
     CharOf(160), OghamSpace, ByteOrderMark}

\* Buffer.prototype.toString: the bytes read as UTF-8.  A byte, or a start of
\* a sequence, that is not well formed becomes one replacement character.
RECURSIVE Utf8Decode(_)
Utf8Sequence(bs, need, second, third, fourth) ==
    IF need = 0 \/ ~second THEN Replacement \o Utf8Decode(Tail(bs))
    ELSE IF need = 1
    THEN CharOf((bs[1] - 192) * 64 + (bs[2] - 128)) \o Utf8Decode(Drop(bs, 2))
    ELSE IF ~third THEN Replacement \o Utf8Decode(Drop(bs, 2))
    ELSE IF need = 2
    THEN CharOf((bs[1] - 224) * 4096 + (bs[2] - 128) * 64 + (bs[3] - 128))
         \o Utf8Decode(Drop(bs, 3))
    ELSE IF ~fourth THEN Replacement \o Utf8Decode(Drop(bs, 3))
    ELSE CharOf((bs[1] - 240) * 262144 + (bs[2] - 128) * 4096
                + (bs[3] - 128) * 64 + (bs[4] - 128))
         \o Utf8Decode(Drop(bs, 4))

Utf8Decode(bs) ==
    IF bs = <<>> THEN ""
    ELSE IF bs[1] < 128 THEN CharOf(bs[1]) \o Utf8Decode(Tail(bs))
    ELSE Utf8Sequence(bs,
             CASE bs[1] \in 194..223 -> 1
               [] bs[1] \in 224..239 -> 2
               [] bs[1] \in 240..244 -> 3
               [] OTHER -> 0,
             Len(bs) >= 2
             /\ bs[2] >= (CASE bs[1] = 224 -> 160 [] bs[1] = 240 -> 144 [] OTHER -> 128)
             /\ bs[2] <= (CASE bs[1] = 237 -> 159 [] bs[1] = 244 -> 143 [] OTHER -> 191),
             Len(bs) >= 3 /\ bs[3] \in 128..191,
             Len(bs) >= 4 /\ bs[4] \in 128..191)

MaxHeaderLen == 2

HeaderAlphabet == {"0", "4", "2", " ", "s", "-"}

HeaderChars == UNION {[1..n -> HeaderAlphabet] : n \in 0..MaxHeaderLen}

IsDigit(c) == c \in {"0", "1", "2", "3", "4", "5", "6", "7", "8", "9"}

DigitVal(c) ==
    CASE c = "0" -> 0 [] c = "1" -> 1 [] c = "2" -> 2 [] c = "3" -> 3
      [] c = "4" -> 4 [] c = "5" -> 5 [] c = "6" -> 6 [] c = "7" -> 7
      [] c = "8" -> 8 [] c = "9" -> 9

\* The value of c as a digit of a radix up to 16, or 16 if it is none.
HexVal(c) ==
    CASE IsDigit(c) -> DigitVal(c)
      [] c \in {"a", "A"} -> 10 [] c \in {"b", "B"} -> 11
      [] c \in {"c", "C"} -> 12 [] c \in {"d", "D"} -> 13
      [] c \in {"e", "E"} -> 14 [] c \in {"f", "F"} -> 15
      [] OTHER -> 16

RECURSIVE SkipSpaces(_)
SkipSpaces(cs) ==
    IF Len(cs) > 0 /\ cs[1] \in WhiteSpace THEN SkipSpaces(Tail(cs)) ELSE cs

RECURSIVE TrimRight(_)
TrimRight(cs) ==
    IF Len(cs) > 0 /\ cs[Len(cs)] \in WhiteSpace
    THEN TrimRight(SubSeq(cs, 1, Len(cs) - 1))
    ELSE cs

\* String.prototype.trim, on the characters.
Trim(cs) == TrimRight(SkipSpaces(cs))

\* The length of the longest prefix of cs made of digits of the radix.
RECURSIVE DigitRun(_, _)
DigitRun(cs, radix) ==
    IF Len(cs) = 0 \/ HexVal(cs[1]) >= radix THEN 0
    ELSE 1 + DigitRun(Tail(cs), radix)

\* The value of the digits cs in the radix, continuing from acc.
RECURSIVE RadixValue(_, _, _)
RadixValue(cs, radix, acc) ==
    IF Len(cs) = 0 THEN acc
    ELSE RadixValue(Tail(cs), radix, radix * acc + HexVal(cs[1]))

\* The value of the longest prefix of decimal digits of cs, continuing from acc.
DigitsValue(cs, acc) == RadixValue(Take(cs, DigitRun(cs, 10)), 10, acc)

RECURSIVE Pad(_, _)
Pad(text, width) == IF Len(text) >= width THEN text ELSE Pad("0" \o text, width)

-----------------------------------------------------------------------------
(* Natural numbers of any size, for what 32 bits do not hold: the limbs of  *)
(* the number in base 10000, the least significant first and the most      *)
(* significant not zero; the empty sequence is zero.  A limb times a factor *)
(* up to 200000 fits 32 bits.  The operations split their operands in      *)
(* halves, so that the depth of the evaluation grows with the logarithm of  *)
(* the length.                                                              *)

Max(a, b) == IF a < b THEN b ELSE a

Min(a, b) == IF a < b THEN a ELSE b

Abs(n) == IF n < 0 THEN 0 - n ELSE n

RECURSIVE Pow(_, _)
Pow(b, n) == IF n <= 0 THEN 1 ELSE b * Pow(b, n - 1)

Zeros(n) == [i \in 1..n |-> "0"]

\* The digits ds without the zeros in front.
StripZeros(ds) ==
    Drop(ds, Cardinality({i \in 1..Len(ds) : \A j \in 1..i : ds[j] = "0"}))

\* The number of zeros at the end of the digits ds.
ZerosAtEnd(ds) ==
    Cardinality({i \in 1..Len(ds) : \A j \in i..Len(ds) : ds[j] = "0"})

BigOfInt(n) ==
    IF n = 0 THEN <<>>
    ELSE IF n < 10000 THEN <<n>>
    ELSE IF n < 100000000 THEN <<n % 10000, n \div 10000>>
    ELSE <<n % 10000, (n \div 10000) % 10000, n \div 100000000>>

BigLimb(a, i) == IF i <= Len(a) THEN a[i] ELSE 0

\* The number of up to three limbs.
BigToInt(a) == BigLimb(a, 1) + (10000 * BigLimb(a, 2)) + (100000000 * BigLimb(a, 3))

\* The limbs a without the zeros at the most significant end.
BigNormal(a) ==
    Take(a, Len(a) - Cardinality({i \in 1..Len(a) : \A j \in i..Len(a) : a[j] = 0}))

\* a * 10000^n
BigShift(a, n) == IF a = <<>> THEN a ELSE [i \in 1..n |-> 0] \o a

\* The limbs of the sums xs[lo] to xs[hi] of one position each, with the
\* carry c coming in and the carry that goes out; a negative sum borrows.
RECURSIVE BigCarryRange(_, _, _, _)
BigCarryJoin(low, high) ==
    [limbs |-> low.limbs \o high.limbs, carry |-> high.carry]

BigCarryHigh(xs, mid, hi, low) ==
    BigCarryJoin(low, BigCarryRange(xs, low.carry, mid + 1, hi))

BigCarryRange(xs, c, lo, hi) ==
    IF lo > hi THEN [limbs |-> <<>>, carry |-> c]
    ELSE IF lo = hi
    THEN [limbs |-> <<(xs[lo] + c) % 10000>>, carry |-> (xs[lo] + c) \div 10000]
    ELSE BigCarryHigh(xs, (lo + hi) \div 2, hi,
                      BigCarryRange(xs, c, lo, (lo + hi) \div 2))

BigCarryEnd(r) == BigNormal(r.limbs \o BigOfInt(r.carry))

BigCarry(xs, c) == BigCarryEnd(BigCarryRange(xs, c, 1, Len(xs)))

\* a * k + c, for a factor k from 1 to 200000.
BigMulAdd(a, k, c) == BigCarry([i \in 1..Len(a) |-> a[i] * k], c)

BigMul(a, k) == IF k = 0 THEN <<>> ELSE BigMulAdd(a, k, 0)

\* a + b + c
BigAdd(a, b, c) ==
    BigCarry([i \in 1..Max(Len(a), Len(b)) |-> BigLimb(a, i) + BigLimb(b, i)], c)

\* a - b, for a not less than b.
BigSub(a, b) == BigCarry([i \in 1..Len(a) |-> a[i] - BigLimb(b, i)], 0)

BigCmpAt(a, b, same) ==
    IF same = Len(a) THEN 0
    ELSE IF a[Len(a) - same] < b[Len(a) - same] THEN -1 ELSE 1

\* -1, 0 or 1 as a is less than, equal to or greater than b.
BigCmp(a, b) ==
    IF Len(a) # Len(b) THEN (IF Len(a) < Len(b) THEN -1 ELSE 1)
    ELSE BigCmpAt(a, b,
             Cardinality({i \in 1..Len(a) : \A j \in i..Len(a) : a[j] = b[j]}))

\* a times the limbs b[lo] to b[hi] in their places.
RECURSIVE BigMulRange(_, _, _, _)
BigMulRange(a, b, lo, hi) ==
    IF lo > hi THEN <<>>
    ELSE IF lo = hi THEN BigShift(BigMul(a, b[lo]), lo - 1)
    ELSE BigAdd(BigMulRange(a, b, lo, (lo + hi) \div 2),
                BigMulRange(a, b, ((lo + hi) \div 2) + 1, hi), 0)

\* a * b
BigTimes(a, b) ==
    IF Len(a) < Len(b) THEN BigMulRange(b, a, 1, Len(a))
    ELSE BigMulRange(a, b, 1, Len(b))

BigSquare(a) == BigTimes(a, a)

\* k to the n, for k from 1 to 200000.
RECURSIVE BigPow(_, _)
BigPow(k, n) ==
    IF n <= 0 THEN <<1>>
    ELSE IF n % 2 = 1 THEN BigMul(BigSquare(BigPow(k, n \div 2)), k)
    ELSE BigSquare(BigPow(k, n \div 2))

BigTimesPow2(a, n) == IF n <= 0 THEN a ELSE BigTimes(a, BigPow(2, n))

BigTimesPow10(a, n) ==
    IF n <= 0 THEN a ELSE BigShift(BigMul(a, Pow(10, n % 4)), n \div 4)

\* The quotient of the limbs a[lo] to a[hi] by k, from the most significant
\* down, with the remainder r coming in from above and the one that is left.
RECURSIVE BigDivRange(_, _, _, _, _)
BigDivJoin(high, low) == [q |-> low.q \o high.q, r |-> low.r]

BigDivLow(a, k, lo, mid, high) ==
    BigDivJoin(high, BigDivRange(a, k, high.r, lo, mid))

BigDivRange(a, k, r, lo, hi) ==
    IF lo > hi THEN [q |-> <<>>, r |-> r]
    ELSE IF lo = hi
    THEN [q |-> <<(r * 10000 + a[lo]) \div k>>, r |-> (r * 10000 + a[lo]) % k]
    ELSE BigDivLow(a, k, lo, (lo + hi) \div 2,
                   BigDivRange(a, k, r, ((lo + hi) \div 2) + 1, hi))

BigDivEnd(x) == [q |-> BigNormal(x.q), r |-> x.r]

\* The quotient q and the remainder r of a by k, for k from 1 to 200000.
BigDivMod(a, k) == BigDivEnd(BigDivRange(a, k, 0, 1, Len(a)))

\* The number the decimal digits ds write.
BigOfDigits(ds) ==
    BigNormal([i \in 1..((Len(ds) + 3) \div 4) |->
                  RadixValue(SubSeq(ds, Max(1, Len(ds) - (4 * i) + 1),
                                    Len(ds) - (4 * (i - 1))), 10, 0)])

\* The number the digits cs[lo] to cs[hi] write in the radix.
RECURSIVE BigOfRadixRange(_, _, _, _)
BigOfRadixRange(cs, radix, lo, hi) ==
    IF hi - lo < 4 THEN BigOfInt(RadixValue(SubSeq(cs, lo, hi), radix, 0))
    ELSE BigAdd(BigTimes(BigOfRadixRange(cs, radix, lo, (lo + hi) \div 2),
                         BigPow(radix, hi - ((lo + hi) \div 2))),
                BigOfRadixRange(cs, radix, ((lo + hi) \div 2) + 1, hi), 0)

BigOfRadix(cs, radix) == BigOfRadixRange(cs, radix, 1, Len(cs))

\* The decimal digits of a, none for zero.
BigText(a) ==
    JoinRange([i \in 1..Len(a) |->
                  IF i = 1 THEN ToString(a[Len(a)])
                  ELSE Pad(ToString(a[Len(a) - i + 1]), 4)], 1, Len(a))

\* The largest t from lo to hi with d * t not above a.
RECURSIVE BigQuotLimb(_, _, _, _)
BigQuotLimb(a, d, lo, hi) ==
    IF lo = hi THEN lo
    ELSE IF BigCmp(BigMul(d, (lo + hi + 1) \div 2), a) <= 0
    THEN BigQuotLimb(a, d, (lo + hi + 1) \div 2, hi)
    ELSE BigQuotLimb(a, d, lo, ((lo + hi + 1) \div 2) - 1)

\* Long division, limb j of the quotient next; q is the quotient so far.
RECURSIVE BigQuotFrom(_, _, _, _)
BigQuotStep(a, d, j, q, shifted, t) ==
    BigQuotFrom(BigSub(a, BigMul(shifted, t)), d, j - 1,
                IF q = <<>> /\ t = 0 THEN q ELSE <<t>> \o q)

BigQuotFrom(a, d, j, q) ==
    IF j < 0 \/ Len(a) + Len(q) < 0 THEN [q |-> q, r |-> a, d |-> d]
    ELSE BigQuotStep(a, d, j, q, BigShift(d, j), BigQuotLimb(a, BigShift(d, j), 0, 9999))

\* The quotient q and the remainder r of a by d, for d not zero.
BigQuot(a, d) == BigQuotFrom(a, d, Len(a) - Len(d), <<>>)

-----------------------------------------------------------------------------
(* Numbers.  A Number is a double.  Num(n) is an integer of 32 bits; any    *)
(* other finite number is given by its sign, the digits Number.toString     *)
(* writes for it (the fewest that name it, without zeros at either end) and *)
(* the power of ten they are multiplied with; the two infinities are        *)
(* Inf(neg).  Zero has no sign here: no operation of the program tells -0   *)
(* from 0.                                                                  *)

Inf(neg) == [t |-> "infinity", neg |-> neg]

\* The number of the digits ds times ten to the e, for digits that start
\* with no zero and are those the double is written with.
Finite(neg, ds, e) ==
    LET sig == Take(ds, Len(ds) - ZerosAtEnd(ds))
        ex == e + ZerosAtEnd(ds)
    IN  IF ex >= 0 /\ Len(sig) + ex <= 10
           /\ BigCmp(BigOfDigits(sig \o Zeros(ex)), <<3647, 4748, 21>>) <= 0
        THEN Num((IF neg THEN -1 ELSE 1) * RadixValue(sig \o Zeros(ex), 10, 0))
        ELSE [t |-> "scaled", neg |-> neg, digits |-> Join(sig), e |-> ex]

\* The fewest digits that name the double q * 2^b among the doubles.  lo and
\* hi are the middles between the double and its neighbours and v is the
\* double, all three as whole numbers times ten to the e10; vd are the digits
\* of v.  A number of n digits names the double if it lies between lo and hi,
\* the middles themselves included when q is even (round-half-even); of two
\* such numbers the one nearer to v is taken.
RECURSIVE ShortestFrom(_, _, _, _, _, _, _, _)
ShortestPick(neg, e10, even, lo, v, hi, vd, n, down, up) ==
    LET inside(c) ==
            /\ BigCmp(lo, c) < 0 \/ (even /\ BigCmp(lo, c) = 0)
            /\ BigCmp(c, hi) < 0 \/ (even /\ BigCmp(c, hi) = 0)
        nearer == BigCmp(BigSub(v, down), BigSub(up, v))
    IN  IF inside(down) /\ inside(up)
        THEN IF nearer < 0 \/ (nearer = 0 /\ DigitVal(vd[n]) % 2 = 0)
             THEN Finite(neg, Chars(BigText(down)), e10)
             ELSE Finite(neg, Chars(BigText(up)), e10)
        ELSE IF inside(down) THEN Finite(neg, Chars(BigText(down)), e10)
        ELSE IF inside(up) THEN Finite(neg, Chars(BigText(up)), e10)
        ELSE ShortestFrom(neg, e10, even, lo, v, hi, vd, n + 1)

ShortestFrom(neg, e10, even, lo, v, hi, vd, n) ==
    IF n >= Len(vd) THEN Finite(neg, vd, e10)
    ELSE ShortestPick(neg, e10, even, lo, v, hi, vd, n,
                      BigOfDigits(Take(vd, n) \o Zeros(Len(vd) - n)),
                      BigAdd(BigOfDigits(Take(vd, n) \o Zeros(Len(vd) - n)),
                             BigTimesPow10(<<1>>, Len(vd) - n), 0))

ShortestStart(neg, e10, even, lo, v, hi) ==
    ShortestFrom(neg, e10, even, lo, v, hi, Chars(BigText(v)), 1)

\* The quarters of the unit 2^b are scaled to whole numbers times ten to the
\* Min(b - 2, 0): scale is 2^(b - 2), or 5^(2 - b) when b - 2 is negative.
\* The lower neighbour of a power of two lies at half the distance of the
\* upper.
ShortestScaled(neg, q, b, scale) ==
    ShortestStart(neg, Min(b - 2, 0), q[1] % 2 = 0,
                  BigTimes(BigSub(BigMul(q, 4),
                                  IF b > -1074 /\ q = BigPow(2, 52)
                                  THEN <<1>> ELSE <<2>>), scale),
                  BigTimes(BigMul(q, 4), scale),
                  BigTimes(BigAdd(BigMul(q, 4), <<2>>, 0), scale))

\* The number that is the double q * 2^b, q of 53 bits at most.
Shortest(neg, q, b) ==
    ShortestScaled(neg, q, b, IF b >= 2 THEN BigPow(2, b - 2) ELSE BigPow(5, 2 - b))

\* q * 2^b after rounding: zero, a double, or beyond the largest double.
DoubleFinish(neg, q, b) ==
    IF q = <<>> THEN Num(0)
    ELSE IF b > 971 \/ (b = 971 /\ BigCmp(q, BigPow(2, 53)) >= 0)
    THEN Inf(neg)
    ELSE Shortest(neg, q, b)

\* The quotient is cut to 53 bits: top is the quotient without its last s
\* bits and what those bits were; what was cut off is compared with one half,
\* and a half is rounded to the even neighbour.
DoubleRound(neg, b, s, top, qr) ==
    LET half == IF s = 0 THEN BigCmp(BigMul(qr.r, 2), qr.d)
                ELSE IF top.r # Pow(2, s - 1)
                THEN (IF top.r > Pow(2, s - 1) THEN 1 ELSE -1)
                ELSE IF qr.r = <<>> THEN 0 ELSE 1
        odd == top.q # <<>> /\ top.q[1] % 2 = 1
    IN  DoubleFinish(neg,
                     IF half > 0 \/ (half = 0 /\ odd)
                     THEN BigAdd(top.q, <<>>, 1) ELSE top.q,
                     b + s)

\* The number of bits t has beyond 53 + s.
RECURSIVE BitsBeyond(_, _)
BitsBeyond(t, s) ==
    IF BigCmp(t, BigPow(2, 53 + s)) < 0 THEN s ELSE BitsBeyond(t, s + 1)

DoubleQuotient(neg, b, qr, s) ==
    DoubleRound(neg, b, s, BigDivMod(qr.q, Pow(2, s)), qr)

\* The double nearest to the digits ds times ten to the e, found by exact
\* division: the number is a / d * 2^b with whole numbers a and d, and b is
\* an exponent for which the quotient has 53 bits or a few more (or the
\* least exponent of a double, -1074).
DoubleRatio(neg, b, qr) == DoubleQuotient(neg, b, qr, BitsBeyond(qr.q, 0))

DoubleSig(neg, ds, e, b) ==
    DoubleRatio(neg, b,
        BigQuot(BigTimesPow2(BigTimesPow10(BigOfDigits(ds), e), 0 - b),
                BigTimesPow2(BigTimesPow10(<<1>>, 0 - e), b)))

\* The Number nearest to the decimal digits ds times ten to the e (the
\* rounding of a literal to a double): beyond the largest double it is an
\* infinity and below half the least it is zero; digits up to 15 within the
\* range of the normal doubles are a double's own digits.
DoubleStripped(neg, ds, e) ==
    IF ds = <<>> THEN Num(0)
    ELSE IF Len(ds) + e > 309 THEN Inf(neg)
    ELSE IF Len(ds) + e < -323 THEN Num(0)
    ELSE IF Len(ds) - ZerosAtEnd(ds) <= 15 /\ Len(ds) + e \in -306..308
    THEN Finite(neg, ds, e)
    ELSE DoubleSig(neg, ds, e,
                   Max((((Len(ds) + e - 1) * 3321928) \div 1000000) - 53, -1074))

Double(neg, ds, e) == DoubleStripped(neg, StripZeros(ds), e)

\* The number m times ten to the e.
Sci(m, e) == Double(m < 0, Chars(ToString(Abs(m))), e)

\* JavaScript's parseInt(string) with no radix given: leading white space is
\* skipped, an optional sign is read, a prefix 0x or 0X selects radix 16 and
\* anything else radix 10, then digits are read up to the first character that
\* is none; NaN when no digit is found.
ParseInt(x) ==
    LET cs == SkipSpaces(Chars(x.s))
        neg == Len(cs) > 0 /\ cs[1] = "-"
        unsigned == IF Len(cs) > 0 /\ cs[1] \in {"-", "+"} THEN Tail(cs) ELSE cs
        hex == Len(unsigned) >= 2 /\ unsigned[1] = "0" /\ unsigned[2] \in {"x", "X"}
        body == IF hex THEN Drop(unsigned, 2) ELSE unsigned
        n == DigitRun(body, IF hex THEN 16 ELSE 10)
    IN  IF n = 0 THEN NaNv
        ELSE IF hex
        THEN Double(neg, Chars(BigText(BigOfRadix(Take(body, n), 16))), 0)
        ELSE Double(neg, Take(body, n), 0)

\* The unsigned StrDecimalLiteral is read from left to right: digits, a
\* fraction, an exponent.

\* The exponent the digits cs write, or a million if it is more.
ExponentValue(cs) ==
    IF Len(StripZeros(cs)) > 6 THEN 1000000 ELSE RadixValue(StripZeros(cs), 10, 0)

\* The number of the digits read, nf of them behind the point, with the
\* exponent given.
DecimalValue(digits, nf, eneg, exponent) ==
    Double(FALSE, digits, (IF eneg THEN 0 - exponent ELSE exponent) - nf)

\* The exponent part, in what is left after the fraction.
DecimalExponent(rest, digits, nf) ==
    LET ex == Len(rest) > 0 /\ rest[1] \in {"e", "E"}
        r4 == IF ex THEN Tail(rest) ELSE rest
        eneg == ex /\ Len(r4) > 0 /\ r4[1] = "-"
        r5 == IF ex /\ Len(r4) > 0 /\ r4[1] \in {"+", "-"} THEN Tail(r4) ELSE r4
        ne == IF ex THEN DigitRun(r5, 10) ELSE 0
    IN  IF Len(digits) = 0 \/ (ex /\ ne = 0) \/ Len(r5) # ne THEN NaNv
        ELSE DecimalValue(digits, nf, eneg, ExponentValue(Take(r5, ne)))

\* The fraction, in what is left after the digits before the point.
DecimalFraction(rest, whole) ==
    LET dot == Len(rest) > 0 /\ rest[1] = "."
        r2 == IF dot THEN Tail(rest) ELSE rest
        nf == IF dot THEN DigitRun(r2, 10) ELSE 0
    IN  DecimalExponent(Drop(r2, nf), whole \o Take(r2, nf), nf)

DecimalLiteral(cs) ==
    DecimalFraction(Drop(cs, DigitRun(cs, 10)), Take(cs, DigitRun(cs, 10)))

\* -x
Negate(x) ==
    CASE x.t = "number" -> Num(0 - x.n)
      [] x.t = "scaled" -> [x EXCEPT !.neg = ~x.neg]
      [] x.t = "infinity" -> Inf(~x.neg)
      [] OTHER -> x

\* JavaScript's ToNumber on a string (StringToNumber): white space is trimmed;
\* the empty string is 0; then a literal of radix 16, 8 or 2 with its prefix
\* and no sign, or an optionally signed Infinity or decimal literal; anything
\* else is NaN.

\* The radix the prefix of the trimmed characters cs selects.
LiteralRadix(cs) ==
    IF Len(cs) < 2 \/ cs[1] # "0" THEN 10
    ELSE CASE cs[2] \in {"x", "X"} -> 16
           [] cs[2] \in {"o", "O"} -> 8
           [] cs[2] \in {"b", "B"} -> 2
           [] OTHER -> 10

\* The digits behind a prefix 0x, 0o or 0b.
RadixLiteral(cs, radix) ==
    IF Len(cs) > 0 /\ DigitRun(cs, radix) = Len(cs)
    THEN Double(FALSE, Chars(BigText(BigOfRadix(cs, radix))), 0)
    ELSE NaNv

UnsignedLiteral(body) ==
    IF Join(body) = "Infinity" THEN Inf(FALSE) ELSE DecimalLiteral(body)

SignedValue(neg, value) == IF neg THEN Negate(value) ELSE value

SignedLiteral(cs, signed) ==
    SignedValue(signed /\ cs[1] = "-", UnsignedLiteral(IF signed THEN Tail(cs) ELSE cs))

TrimmedLiteral(cs, radix) ==
    IF radix # 10 THEN RadixLiteral(Drop(cs, 2), radix)
    ELSE SignedLiteral(cs, cs[1] \in {"-", "+"})

TrimmedToNumber(cs) ==
    IF Len(cs) = 0 THEN Num(0) ELSE TrimmedLiteral(cs, LiteralRadix(cs))

StringToNumber(x) == TrimmedToNumber(Trim(Chars(x.s)))

\* Number.prototype.toString of the digits ds of a positive number with the
\* decimal point n places behind the first.
NumberDigitsText(ds, n) ==
    LET k == Len(ds)
        ex == n - 1
    IN  IF k <= n /\ n <= 21 THEN Join(ds) \o Join(Zeros(n - k))
        ELSE IF 0 < n /\ n <= 21 THEN Join(Take(ds, n)) \o "." \o Join(Drop(ds, n))
        ELSE IF -6 < n /\ n <= 0 THEN "0." \o Join(Zeros(0 - n)) \o Join(ds)
        ELSE ds[1] \o (IF k > 1 THEN "." \o Join(Tail(ds)) ELSE "")
             \o "e" \o (IF ex < 0 THEN "-" ELSE "+") \o ToString(Abs(ex))

\* Number.prototype.toString
NumberText(x) ==
    CASE x.t = "number" -> ToString(x.n)
      [] x.t = "nan" -> "NaN"
      [] x.t = "infinity" -> IF x.neg THEN "-Infinity" ELSE "Infinity"
      [] x.t = "scaled" ->
            (IF x.neg THEN "-" ELSE "")
            \o NumberDigitsText(Chars(x.digits), Len(x.digits) + x.e)

-----------------------------------------------------------------------------
(* Dates.  Time is counted in minutes from 2025-01-01T00:00Z: a Date holds  *)
(* the number of its minute (`ms`, NaN for an invalid date) and the         *)
(* milliseconds it lies within that minute (`sub`, 0 to 59999).  The epoch  *)
(* of JavaScript lies 28928160 minutes (20089 days) before; the process     *)
(* runs in the time zone UTC.                                               *)

EpochMinute == -28928160

DateAt(ms, sub) == [t |-> "date", ms |-> ms, sub |-> sub]

Pad2(n) == Pad(ToString(n), 2)

\* The day number, counted from 1970-01-01, of day d of month m of year y in
\* the proleptic Gregorian calendar; a day past the end of the month runs on
\* into the next.
DaysFromCivil(y, m, d) ==
    LET yy == IF m <= 2 THEN y - 1 ELSE y
        era == yy \div 400
        yoe == yy - era * 400
        doy == ((153 * (IF m > 2 THEN m - 3 ELSE m + 9) + 2) \div 5) + d - 1
        doe == yoe * 365 + (yoe \div 4) - (yoe \div 100) + doy
    IN  era * 146097 + doe - 719468

\* The year, month and day of the day numbered z from 1970-01-01.
CivilFromDays(z) ==
    LET s == z + 719468
        era == s \div 146097
        doe == s - era * 146097
        yoe == (doe - (doe \div 1460) + (doe \div 36524) - (doe \div 146096)) \div 365
        doy == doe - (365 * yoe + (yoe \div 4) - (yoe \div 100))
        mp == (5 * doy + 2) \div 153
        m == IF mp < 10 THEN mp + 3 ELSE mp - 9
    IN  [y |-> yoe + era * 400 + (IF m <= 2 THEN 1 ELSE 0),
         m |-> m,
         d |-> doy - ((153 * mp + 2) \div 5) + 1]

\* The minute, in the model's count, at which a day of the calendar starts.
MinuteOfDay(y, m, d) == (DaysFromCivil(y, m, d) - 20089) * 1440

\* The day, counted from 1970-01-01, and the minute of that day of the minute
\* numbered m, a whole number.
DayMinuteOf(neg, qr) ==
    IF ~neg THEN [day |-> BigToInt(qr.q) + 20089, minute |-> qr.r]
    ELSE IF qr.r = 0 THEN [day |-> 20089 - BigToInt(qr.q), minute |-> 0]
    ELSE [day |-> 20088 - BigToInt(qr.q), minute |-> 1440 - qr.r]

DayMinute(m) ==
    IF m.t = "number"
    THEN [day |-> (m.n \div 1440) + 20089, minute |-> m.n % 1440]
    ELSE DayMinuteOf(m.neg,
             BigDivMod(BigTimesPow10(BigOfDigits(Chars(m.digits)), m.e), 1440))

\* The number, in the model's count, of minute `minute` of the day numbered
\* `day` from 1970-01-01.
MinuteNumber(day, minute) ==
    IF Abs(day - 20089) <= 1490000 THEN Num((day - 20089) * 1440 + minute)
    ELSE IF day > 20089
    THEN Finite(FALSE, Chars(BigText(BigMulAdd(BigOfInt(day - 20089), 1440, minute))), 0)
    ELSE Finite(TRUE, Chars(BigText(BigSub(BigMul(BigOfInt(20089 - day), 1440),
                                           BigOfInt(minute)))), 0)

\* The date at `sub` milliseconds into minute `minute` (which may lie outside
\* the day) of the day numbered `day`; a date more than 100,000,000 days from
\* the epoch is invalid (TimeClip).
DateOfDay(day, minute, sub) ==
    LET d == day + (minute \div 1440)
    IN  IF d < -100000000 \/ d > 100000000
           \/ (d = 100000000 /\ (minute % 1440 # 0 \/ sub # 0))
        THEN DateAt(NaNv, 0)
        ELSE DateAt(MinuteNumber(d, minute % 1440), sub)

\* The year as toISOString writes it.
IsoYear(y) ==
    IF y \in 0..9999 THEN Pad(ToString(y), 4)
    ELSE IF y < 0 THEN "-" \o Pad(ToString(0 - y), 6)
    ELSE "+" \o Pad(ToString(y), 6)

IsoText(day, minute, sub) ==
    IsoYear(day.y) \o "-" \o Pad2(day.m) \o "-" \o Pad2(day.d) \o "T"
    \o Pad2(minute \div 60) \o ":" \o Pad2(minute % 60) \o ":"
    \o Pad2(sub \div 1000) \o "." \o Pad(ToString(sub % 1000), 3) \o "Z"

\* Date.prototype.toISOString of the valid date d.
IsoOfDate(d) ==
    IsoText(CivilFromDays(DayMinute(d.ms).day), DayMinute(d.ms).minute, d.sub)

\* The same of the date at the start of minute n.
Iso(n) == IsoOfDate(DateAt(Num(n), 0))

\* The same instant as servers commonly write it, without milliseconds.
IsoShort(n) == Take(Iso(n), 19) \o "Z"

WeekDays == <<"Thu", "Fri", "Sat", "Sun", "Mon", "Tue", "Wed">>

MonthNames == <<"Jan", "Feb", "Mar", "Apr", "May", "Jun",
                "Jul", "Aug", "Sep", "Oct", "Nov", "Dec">>

DateTextOf(z, day, minute, sub) ==
    WeekDays[(z % 7) + 1] \o " " \o MonthNames[day.m] \o " " \o Pad2(day.d)
    \o " " \o (IF day.y < 0 THEN "-" ELSE "") \o Pad(ToString(Abs(day.y)), 4)
    \o " " \o Pad2(minute \div 60) \o ":" \o Pad2(minute % 60)
    \o ":" \o Pad2(sub \div 1000) \o " GMT+0000 (Coordinated Universal Time)"

\* Date.prototype.toString
DateText(d) ==
    IF d.ms.t = "nan" THEN "Invalid Date"
    ELSE DateTextOf(DayMinute(d.ms).day, CivilFromDays(DayMinute(d.ms).day),
                    DayMinute(d.ms).minute, d.sub)

\* a <= b of two Dates: of their time values, false if either is NaN.
DateOrder(x, y, orEqual) ==
    \/ x.day < y.day
    \/ x.day = y.day /\ x.minute < y.minute
    \/ x.day = y.day /\ x.minute = y.minute /\ x.sub < y.sub
    \/ orEqual /\ x = y

DateKey(d) ==
    [day |-> DayMinute(d.ms).day, minute |-> DayMinute(d.ms).minute, sub |-> d.sub]

DateLeq(a, b) ==
    a.ms.t # "nan" /\ b.ms.t # "nan" /\ DateOrder(DateKey(a), DateKey(b), TRUE)

\* a < b
DateLess(a, b) ==
    a.ms.t # "nan" /\ b.ms.t # "nan" /\ DateOrder(DateKey(a), DateKey(b), FALSE)

\* The time value of a date: its milliseconds from the epoch.
TimeValueOf(day, minute, sub) ==
    IF day >= 0
    THEN Finite(FALSE,
                Chars(BigText(BigMulAdd(BigMulAdd(BigOfInt(day), 1440, minute),
                                        60000, sub))), 0)
    ELSE Finite(TRUE,
                Chars(BigText(BigSub(BigMul(BigSub(BigMul(BigOfInt(0 - day), 1440),
                                                   BigOfInt(minute)), 60000),
                                     BigOfInt(sub)))), 0)

TimeValue(d) ==
    IF d.ms.t = "nan" THEN NaNv
    ELSE TimeValueOf(DayMinute(d.ms).day, DayMinute(d.ms).minute, d.sub)

\* JavaScript's ToString: of a primitive its text, of an array the texts of
\* its elements joined by commas (nothing for undefined and null), of a Buffer
\* its bytes read as UTF-8, of any other object "[object Object]".
RECURSIVE JSToString(_)
JSToString(x) ==
    CASE x.t = "string" -> x.s
      [] x.t \in {"number", "nan", "scaled", "infinity"} -> NumberText(x)
      [] x.t = "boolean" -> IF x.b THEN "true" ELSE "false"
      [] x.t = "undefined" -> "undefined"
      [] x.t = "null" -> "null"
      [] x.t = "array" ->
            LET part(i) == (IF i > 1 THEN "," ELSE "")
                           \o (IF x.a[i].t \in {"undefined", "null"} THEN ""
                               ELSE JSToString(x.a[i]))
            IN  Join([i \in 1..Len(x.a) |-> part(i)])
      [] x.t = "buffer" -> Utf8Decode(x.bytes)
      [] x.t = "date" -> DateText(x)
      [] OTHER -> "[object Object]"

\* JavaScript's ToNumber: an object is converted through its primitive, which
\* is the time value of a Date and the text of any other object.
ToNumber(x) ==
    CASE x.t \in {"number", "nan", "scaled", "infinity"} -> x
      [] x.t = "undefined" -> NaNv
      [] x.t = "null" -> Num(0)
      [] x.t = "boolean" -> Num(IF x.b THEN 1 ELSE 0)
      [] x.t = "date" -> TimeValue(x)
      [] OTHER -> StringToNumber(Str(JSToString(x)))

\* ToNumber on a primitive value that is no string.
PrimitiveToNumber(x) ==
    CASE x.t \in {"number", "nan", "scaled", "infinity"} -> x
      [] x.t = "null" -> Num(0)
      [] x.t = "boolean" -> Num(IF x.b THEN 1 ELSE 0)
      [] OTHER -> NaNv

\* x <= 0: false when x converts to NaN.
NumberLeqZero(n) ==
    CASE n.t = "number" -> n.n <= 0
      [] n.t = "scaled" -> n.neg
      [] n.t = "infinity" -> n.neg
      [] OTHER -> FALSE

LeqZero(x) == NumberLeqZero(ToNumber(x))

\* The date of the time value x, a number of milliseconds: NaN and the
\* infinities give an invalid date, a fraction of a millisecond is cut off,
\* and more than 8.64e15 milliseconds are outside the range of dates.
DateOfMinutes(neg, days, sub) ==
    DateOfDay(IF neg THEN 0 - BigToInt(days.q) ELSE BigToInt(days.q),
              IF ~neg THEN days.r ELSE IF sub = 0 THEN 0 - days.r ELSE 0 - days.r - 1,
              IF neg /\ sub # 0 THEN 60000 - sub ELSE sub)

DateOfMilliseconds(neg, ms) ==
    IF BigCmp(ms.q, <<0, 0, 1440>>) > 0 THEN DateAt(NaNv, 0)
    ELSE DateOfMinutes(neg, BigDivMod(ms.q, 1440), ms.r)

DateOfTimeValue(x) ==
    CASE x.t = "number" ->
            DateAt(Num(EpochMinute + (x.n \div 60000)), x.n % 60000)
      [] x.t = "scaled" ->
            IF Len(x.digits) + x.e > 16 THEN DateAt(NaNv, 0)
            ELSE DateOfMilliseconds(x.neg,
                     BigDivMod(BigOfDigits(
                         Take(Chars(x.digits) \o Zeros(x.e), Len(x.digits) + x.e)),
                         60000))
      [] OTHER -> DateAt(NaNv, 0)

-----------------------------------------------------------------------------
(* new Date(value) and Date.parse, as V8 reads a string: the date-time      *)
(* format of the language first and, from the first token that does not fit *)
(* it, the legacy forms.                                                    *)

\* The tokens of a date string.
NumberToken(n, len) == [k |-> "number", n |-> n, len |-> len]

SymbolToken(c) == [k |-> "symbol", c |-> c]

KeywordToken(type, value, len) ==
    [k |-> "keyword", type |-> type, value |-> value, len |-> len]

WhiteSpaceToken == [k |-> "space"]

UnknownToken == [k |-> "unknown"]

EndOfInput == [k |-> "end"]

\* The number a run of digits writes: zeros in front are skipped and nine
\* digits are read at most.
UnsignedNumeral(ds) == RadixValue(Take(StripZeros(ds), Min(Len(StripZeros(ds)), 9)), 10, 0)

\* A character of a word: one from "A" on that is not white space.
IsWordChar(c) ==
    c \notin WhiteSpace /\ \A i \in 1..64 : SubSeq(CodeTable, i, i) # c

RECURSIVE WordRun(_)
WordRun(cs) == IF Len(cs) = 0 \/ ~IsWordChar(cs[1]) THEN 0 ELSE 1 + WordRun(Tail(cs))

\* An ASCII capital as the small letter; any other character as itself.
ToLower(c) ==
    IF \E i \in 1..26 : SubSeq(AsciiLow, 33 + i, 33 + i) = c
    THEN SubSeq(AsciiHigh, CHOOSE i \in 1..26 : SubSeq(AsciiLow, 33 + i, 33 + i) = c,
                CHOOSE i \in 1..26 : SubSeq(AsciiLow, 33 + i, 33 + i) = c)
    ELSE c

LowerMonths == <<"jan", "feb", "mar", "apr", "may", "jun",
                 "jul", "aug", "sep", "oct", "nov", "dec">>

\* The keyword a word is, by its first three characters: the name of a month
\* (of any length), or, for a word of three characters at most, am or pm, a
\* time zone with its hours from UTC, or the time separator T.
KeywordOf(prefix, len) ==
    IF \E m \in 1..12 : LowerMonths[m] = prefix
    THEN KeywordToken("month", CHOOSE m \in 1..12 : LowerMonths[m] = prefix, len)
    ELSE IF len > 3 THEN KeywordToken("none", 0, len)
    ELSE CASE prefix = "am" -> KeywordToken("ampm", 0, len)
           [] prefix = "pm" -> KeywordToken("ampm", 12, len)
           [] prefix \in {"ut", "utc", "z", "gmt"} -> KeywordToken("zone", 0, len)
           [] prefix = "edt" -> KeywordToken("zone", -4, len)
           [] prefix \in {"cdt", "est"} -> KeywordToken("zone", -5, len)
           [] prefix \in {"cst", "mdt"} -> KeywordToken("zone", -6, len)
           [] prefix \in {"mst", "pdt"} -> KeywordToken("zone", -7, len)
           [] prefix = "pst" -> KeywordToken("zone", -8, len)
           [] prefix = "t" -> KeywordToken("separator", 0, len)
           [] OTHER -> KeywordToken("none", 0, len)

WordToken(cs) ==
    KeywordOf(Join([i \in 1..Min(Len(cs), 3) |-> ToLower(cs[i])]), Len(cs))

\* The number of characters from an opening parenthesis at place i to the
\* one that closes it, or to the end.
RECURSIVE ParenthesesRun(_, _, _)
ParenthesesRun(cs, i, balance) ==
    IF i > Len(cs) THEN Len(cs)
    ELSE IF cs[i] = ")" /\ balance = 1 THEN i
    ELSE ParenthesesRun(cs, i + 1, CASE cs[i] = "(" -> balance + 1
                                     [] cs[i] = ")" -> balance - 1
                                     [] OTHER -> balance)

RECURSIVE DateTokens(_)
DateTokens(cs) ==
    IF cs = <<>> THEN <<>>
    ELSE IF IsDigit(cs[1])
    THEN <<NumberToken(UnsignedNumeral(Take(cs, DigitRun(cs, 10))), DigitRun(cs, 10))>>
         \o DateTokens(Drop(cs, DigitRun(cs, 10)))
    ELSE IF cs[1] \in {":", "-", "+", ".", ")"}
    THEN <<SymbolToken(cs[1])>> \o DateTokens(Tail(cs))
    ELSE IF IsWordChar(cs[1])
    THEN <<WordToken(Take(cs, WordRun(cs)))>> \o DateTokens(Drop(cs, WordRun(cs)))
    ELSE IF cs[1] \in WhiteSpace THEN <<WhiteSpaceToken>> \o DateTokens(Tail(cs))
    ELSE IF cs[1] = "("
    THEN <<UnknownToken>> \o DateTokens(Drop(cs, ParenthesesRun(cs, 1, 0)))
    ELSE <<UnknownToken>> \o DateTokens(Tail(cs))

Peek(ts, i) == IF i > Len(ts) THEN EndOfInput ELSE ts[i]

IsSymbol(tok, c) == tok.k = "symbol" /\ tok.c = c

IsAsciiSign(tok) == tok.k = "symbol" /\ tok.c \in {"+", "-"}

IsNumber(tok) == tok.k = "number"

IsFixedNumber(tok, len) == tok.k = "number" /\ tok.len = len

IsKeywordType(tok, type) == tok.k = "keyword" /\ tok.type = type

IsKeywordZ(tok) == tok.k = "keyword" /\ tok.type = "zone" /\ tok.len = 1

IsMonth(n) == n \in 1..12

IsDay(n) == n \in 1..31

IsHour(n) == n \in 0..23

IsMinute(n) == n \in 0..59

\* The three most significant digits of the fraction of a second.
ReadMilliseconds(tok) ==
    CASE tok.len = 1 -> tok.n * 100
      [] tok.len = 2 -> tok.n * 10
      [] tok.len > 3 -> tok.n \div Pow(10, Min(tok.len, 9) - 3)
      [] OTHER -> tok.n

\* What has been read of a date: the numbers of the day composer and its
\* named month (0 if none), whether the date is in the format of the
\* language, the numbers of the time composer and its hour offset of am or
\* pm (-1 if none), the sign (0 if none), hour and minute (-1 if none) of the
\* time zone composer, and whether a number has been read.
NothingRead ==
    [day |-> <<>>, named |-> 0, iso |-> FALSE, time |-> <<>>, offset |-> -1,
     sign |-> 0, tzh |-> -1, tzm |-> -1, read |-> FALSE]

Invalid == [k |-> "invalid"]

\* No date: a string that does not parse, or a date out of range.
InvalidDate == DateAt(NaNv, 0)

\* MakeDay, MakeTime, MakeDate and TimeClip of the fields written: a year
\* beyond a million either way is no date, a day past the end of its month
\* runs on, and a time without time zone is local time.
MakeDate(year, month, day, hour, minute, second, ms, offset) ==
    IF year < -1000000 \/ year > 1000000 THEN InvalidDate
    ELSE DateOfDay(DaysFromCivil(year, month, day), 60 * hour + minute - offset,
                   1000 * second + ms)

\* TimeZoneComposer::Write: the offset from UTC in minutes.
WriteTimeZone(st, year, month, day, hour, minute, second, ms) ==
    IF st.sign # 0 /\ (\/ Max(st.tzh, 0) > 596523 \/ Max(st.tzm, 0) > 35791394
                       \/ 60 * Max(st.tzh, 0) + Max(st.tzm, 0) > 35791394)
    THEN InvalidDate
    ELSE MakeDate(year, month, day, hour, minute, second, ms,
                  IF st.sign = 0 THEN 0
                  ELSE st.sign * (60 * Max(st.tzh, 0) + Max(st.tzm, 0)))

\* TimeComposer::Write: the numbers not read are 0; with am or pm the hour
\* is one of 0 to 12; hour 24 is midnight alone.
WriteTimeOf(st, year, month, day, hour, minute, second, ms) ==
    IF \/ hour \in 0..23 /\ minute \in 0..59 /\ second \in 0..59 /\ ms \in 0..999
       \/ hour = 24 /\ minute = 0 /\ second = 0 /\ ms = 0
    THEN WriteTimeZone(st, year, month, day, hour, minute, second, ms)
    ELSE InvalidDate

WriteTime(st, year, month, day, time) ==
    IF st.offset # -1 /\ time[1] \notin 0..12 THEN InvalidDate
    ELSE WriteTimeOf(st, year, month, day,
                     IF st.offset # -1 THEN (time[1] % 12) + st.offset ELSE time[1],
                     time[2], time[3], time[4])

\* DayComposer::Write: the numbers not read are 1.  Without a named month the
\* numbers are year, month and day if the date is in the format of the
\* language or the first is no day of a month, and month, day and year
\* otherwise; with a named month they are year and day if the first is no
\* day of a month, and day and year otherwise.  A year of a legacy form up to
\* 49 lies in this century and one from 50 to 99 in the last.
WriteDayOf(st, year, month, day) ==
    IF ~IsMonth(month) \/ ~IsDay(day) THEN InvalidDate
    ELSE WriteTime(st,
                   IF st.iso THEN year
                   ELSE IF year \in 0..49 THEN year + 2000
                   ELSE IF year \in 50..99 THEN year + 1900
                   ELSE year,
                   month, day, st.time \o [i \in 1..(4 - Len(st.time)) |-> 0])

WriteDay(st, comp) ==
    WriteDayOf(st,
               IF st.named = 0
               THEN IF st.iso \/ ~IsDay(comp[1]) THEN comp[1] ELSE comp[3]
               ELSE IF ~IsDay(comp[1]) THEN comp[1] ELSE comp[2],
               IF st.named # 0 THEN st.named
               ELSE IF st.iso \/ ~IsDay(comp[1]) THEN comp[2] ELSE comp[1],
               IF st.named = 0
               THEN IF st.iso \/ ~IsDay(comp[1]) THEN comp[3] ELSE comp[2]
               ELSE IF ~IsDay(comp[1]) THEN comp[2] ELSE comp[1])

\* The date of what has been read.
Write(st) ==
    IF st = Invalid \/ Len(st.day) < 1 THEN InvalidDate
    ELSE WriteDay(st, st.day \o [i \in 1..(3 - Len(st.day)) |-> 1])

\* The legacy parser's loop, token i of ts next.
RECURSIVE Legacy(_, _, _)

\* A number n that is not followed by a colon; j is the place behind it and
\* behind the period that may follow it.
LegacyNumber(ts, j, st, n) ==
    IF st.tzh # -1 /\ st.tzm = -1 /\ IsMinute(n)
    THEN Legacy(ts, j, [st EXCEPT !.tzm = n])
    ELSE IF \/ Len(st.time) = 1 /\ n \in 0..59
            \/ Len(st.time) = 2 /\ n \in 0..59
            \/ Len(st.time) = 3 /\ n \in 0..999
    THEN IF Peek(ts, j).k \in {"end", "space"} \/ IsKeywordZ(Peek(ts, j))
            \/ IsAsciiSign(Peek(ts, j))
         THEN Legacy(ts, j, [st EXCEPT !.time =
                                 (@ \o <<n>>) \o [i \in 1..(3 - Len(@)) |-> 0]])
         ELSE Invalid
    ELSE IF Len(st.day) = 3 THEN Invalid
    ELSE Legacy(ts, IF IsSymbol(Peek(ts, j), "-") THEN j + 1 ELSE j,
                [st EXCEPT !.day = @ \o <<n>>])

\* A number n at place i.
LegacyNumberAt(ts, i, st, n) ==
    IF IsSymbol(Peek(ts, i + 1), ":")
    THEN IF IsSymbol(Peek(ts, i + 2), ":")
         THEN IF st.time # <<>> THEN Invalid
              ELSE Legacy(ts, i + 3, [st EXCEPT !.time = <<n, 0>>])
         ELSE IF Len(st.time) = 4 THEN Invalid
              ELSE Legacy(ts, IF IsSymbol(Peek(ts, i + 2), ".") THEN i + 3 ELSE i + 2,
                          [st EXCEPT !.time = @ \o <<n>>])
    ELSE IF IsSymbol(Peek(ts, i + 1), ".")
            /\ \/ Len(st.time) = 1 /\ n \in 0..59
               \/ Len(st.time) = 2 /\ n \in 0..59
               \/ Len(st.time) = 3 /\ n \in 0..999
    THEN IF ~IsNumber(Peek(ts, i + 2)) THEN Invalid
         ELSE Legacy(ts, i + 3,
                     [st EXCEPT !.time =
                         IF Len(@) = 3 THEN @ \o <<n>>
                         ELSE (@ \o <<n, ReadMilliseconds(Peek(ts, i + 2))>>)
                              \o [j \in 1..(2 - Len(@)) |-> 0]])
    ELSE LegacyNumber(ts, IF IsSymbol(Peek(ts, i + 1), ".") THEN i + 2 ELSE i + 1,
                      st, n)

\* A word at place i: am or pm after a time, the name of a month, the name
\* of a time zone after a number; any other word is allowed only before the
\* first number and not right before it.
LegacyKeyword(ts, i, st, tok) ==
    IF tok.type = "ampm" /\ st.time # <<>>
    THEN Legacy(ts, i + 1, [st EXCEPT !.offset = tok.value])
    ELSE IF tok.type = "month"
    THEN Legacy(ts, IF IsSymbol(Peek(ts, i + 1), "-") THEN i + 2 ELSE i + 1,
                [st EXCEPT !.named = tok.value])
    ELSE IF tok.type = "zone" /\ st.read
    THEN Legacy(ts, i + 1,
                [st EXCEPT !.sign = IF tok.value < 0 THEN -1 ELSE 1,
                           !.tzh = Abs(tok.value), !.tzm = 0])
    ELSE IF st.read \/ IsNumber(Peek(ts, i + 1)) THEN Invalid
    ELSE Legacy(ts, i + 1, st)

\* The offset from UTC behind a sign: the number n of `len` digits that
\* follows (0 of no digits if none does) is the hour if a colon follows or
\* it has one or two digits, and hour and minute if it has three or four.
LegacyOffset(ts, j, st, n, len) ==
    IF IsSymbol(Peek(ts, j), ":")
    THEN Legacy(ts, j, [st EXCEPT !.tzh = n, !.tzm = -1])
    ELSE IF len \in {1, 2}
    THEN Legacy(ts, j, [st EXCEPT !.tzh = n, !.tzm = 0])
    ELSE IF len \in {3, 4}
    THEN Legacy(ts, j, [st EXCEPT !.tzh = n \div 100, !.tzm = n % 100])
    ELSE Invalid

LegacySign(ts, i, st, tok) ==
    IF IsNumber(Peek(ts, i + 1))
    THEN LegacyOffset(ts, i + 2,
                      [st EXCEPT !.sign = IF tok.c = "-" THEN -1 ELSE 1, !.read = TRUE],
                      Peek(ts, i + 1).n, Peek(ts, i + 1).len)
    ELSE LegacyOffset(ts, i + 1,
                      [st EXCEPT !.sign = IF tok.c = "-" THEN -1 ELSE 1, !.read = TRUE],
                      0, 0)

LegacyToken(ts, i, st, tok) ==
    IF tok.k = "number" THEN LegacyNumberAt(ts, i, [st EXCEPT !.read = TRUE], tok.n)
    ELSE IF tok.k = "keyword" THEN LegacyKeyword(ts, i, st, tok)
    ELSE IF IsAsciiSign(tok) /\ ((st.tzh = 0 /\ st.tzm = 0) \/ st.time # <<>>)
    THEN LegacySign(ts, i, st, tok)
    ELSE IF (IsAsciiSign(tok) \/ IsSymbol(tok, ")")) /\ st.read THEN Invalid
    ELSE Legacy(ts, i + 1, st)

Legacy(ts, i, st) == IF i > Len(ts) THEN st ELSE LegacyToken(ts, i, st, ts[i])

\* The legacy parser takes over with what has been read of the day.
LegacyFrom(ts, day) ==
    Legacy(ts, 1, [NothingRead EXCEPT !.day = day, !.read = day # <<>>])

\* The date-time format of the language is read from left to right; i is the
\* place of the token that is next.  Each step gives what has been read, or
\* Invalid.

\* The end of the string behind the time.
ES5End(ts, i, day, time, sign, tzh, tzm) ==
    IF i <= Len(ts) THEN Invalid
    ELSE [NothingRead EXCEPT !.day = day, !.iso = TRUE, !.time = time,
                             !.sign = sign, !.tzh = tzh, !.tzm = tzm]

\* The time zone: Z, or a sign and hh:mm or hhmm.
ES5Zone(ts, i, day, time) ==
    IF IsKeywordZ(Peek(ts, i)) THEN ES5End(ts, i + 1, day, time, 1, 0, 0)
    ELSE IF ~IsAsciiSign(Peek(ts, i)) THEN ES5End(ts, i, day, time, 0, -1, -1)
    ELSE IF IsFixedNumber(Peek(ts, i + 1), 4)
    THEN IF IsHour(Peek(ts, i + 1).n \div 100) /\ IsMinute(Peek(ts, i + 1).n % 100)
         THEN ES5End(ts, i + 2, day, time, IF Peek(ts, i).c = "-" THEN -1 ELSE 1,
                     Peek(ts, i + 1).n \div 100, Peek(ts, i + 1).n % 100)
         ELSE Invalid
    ELSE IF /\ IsFixedNumber(Peek(ts, i + 1), 2) /\ IsHour(Peek(ts, i + 1).n)
            /\ IsSymbol(Peek(ts, i + 2), ":")
            /\ IsFixedNumber(Peek(ts, i + 3), 2) /\ IsMinute(Peek(ts, i + 3).n)
    THEN ES5End(ts, i + 4, day, time, IF Peek(ts, i).c = "-" THEN -1 ELSE 1,
                Peek(ts, i + 1).n, Peek(ts, i + 3).n)
    ELSE Invalid

\* The fraction of the second.
ES5Fraction(ts, i, day, time) ==
    IF ~IsSymbol(Peek(ts, i), ".") THEN ES5Zone(ts, i, day, time)
    ELSE IF ~IsNumber(Peek(ts, i + 1)) \/ (time[1] = 24 /\ Peek(ts, i + 1).n > 0)
    THEN Invalid
    ELSE ES5Zone(ts, i + 2, day, time \o <<ReadMilliseconds(Peek(ts, i + 1))>>)

\* The seconds.
ES5Second(ts, i, day, time) ==
    IF ~IsSymbol(Peek(ts, i), ":") THEN ES5Zone(ts, i, day, time)
    ELSE IF ~IsFixedNumber(Peek(ts, i + 1), 2) \/ Peek(ts, i + 1).n \notin 0..59
            \/ (time[1] = 24 /\ Peek(ts, i + 1).n > 0)
    THEN Invalid
    ELSE ES5Fraction(ts, i + 2, day, time \o <<Peek(ts, i + 1).n>>)

\* The time HH:mm behind the T; hour 24 is midnight alone.
ES5Time(ts, i, day) ==
    IF /\ IsFixedNumber(Peek(ts, i), 2) /\ Peek(ts, i).n \in 0..24
       /\ IsSymbol(Peek(ts, i + 1), ":")
       /\ IsFixedNumber(Peek(ts, i + 2), 2) /\ IsMinute(Peek(ts, i + 2).n)
       /\ ~(Peek(ts, i).n = 24 /\ Peek(ts, i + 2).n > 0)
    THEN ES5Second(ts, i + 3, day, <<Peek(ts, i).n, Peek(ts, i + 2).n>>)
    ELSE Invalid

\* Behind the date: the end of the string (a date alone is in UTC), the T of
\* a time, or a token for the legacy parser.
ES5Date(ts, i, day) ==
    IF IsKeywordType(Peek(ts, i), "separator") THEN ES5Time(ts, i + 1, day)
    ELSE IF i <= Len(ts) THEN LegacyFrom(Drop(ts, i - 1), day)
    ELSE [NothingRead EXCEPT !.day = day, !.iso = TRUE,
                             !.sign = 1, !.tzh = 0, !.tzm = 0]

\* The year, the month and the day give the numbers read and the place i
\* behind them, or the tokens left to the legacy parser (`legacy`).
ES5Read(i, day) == [legacy |-> FALSE, i |-> i, day |-> day]

ES5Legacy(ts, day) == [legacy |-> TRUE, ts |-> ts, day |-> day]

\* The day -DD.
ES5Day(ts, i, day) ==
    IF ~IsSymbol(Peek(ts, i), "-") THEN ES5Read(i, day)
    ELSE IF IsFixedNumber(Peek(ts, i + 1), 2) /\ IsDay(Peek(ts, i + 1).n)
    THEN ES5Read(i + 2, day \o <<Peek(ts, i + 1).n>>)
    ELSE ES5Legacy(Drop(ts, i), day)

\* The month -MM.
ES5Month(ts, i, day) ==
    IF ~IsSymbol(Peek(ts, i), "-") THEN ES5Read(i, day)
    ELSE IF IsFixedNumber(Peek(ts, i + 1), 2) /\ IsMonth(Peek(ts, i + 1).n)
    THEN ES5Day(ts, i + 2, day \o <<Peek(ts, i + 1).n>>)
    ELSE ES5Legacy(Drop(ts, i), day)

\* The year: a sign and six digits (not -000000), or four digits.
ES5Year(ts) ==
    IF IsAsciiSign(Peek(ts, 1))
    THEN IF ~IsFixedNumber(Peek(ts, 2), 6) THEN ES5Legacy(ts, <<>>)
         ELSE IF ts[1].c = "-" /\ ts[2].n = 0
         THEN ES5Legacy(<<ts[1]>> \o Drop(ts, 2), <<>>)
         ELSE ES5Month(ts, 3, <<(IF ts[1].c = "-" THEN -1 ELSE 1) * ts[2].n>>)
    ELSE IF IsFixedNumber(Peek(ts, 1), 4) THEN ES5Month(ts, 2, <<ts[1].n>>)
    ELSE ES5Legacy(ts, <<>>)

ES5Rest(ts, read) ==
    IF read.legacy THEN LegacyFrom(read.ts, read.day)
    ELSE ES5Date(ts, read.i, read.day)

ES5DateTime(ts) == ES5Rest(ts, ES5Year(ts))

\* new Date(string): the date the string names, or an invalid date.
DateParse(s) == Write(ES5DateTime(DateTokens(Chars(s))))

\* new Date(x): a copy of a Date, the date a string names, and of any other
\* value the date its number gives as milliseconds from the epoch (null is the
\* epoch itself, undefined an invalid date).  An object is converted through
\* its primitive first, which is its text unless it is a Date.
NewDate(x) ==
    CASE x.t = "date" -> x
      [] x.t \in {"string", "array", "buffer", "object"} -> DateParse(JSToString(x))
      [] OTHER -> DateOfTimeValue(PrimitiveToNumber(x))

-----------------------------------------------------------------------------
(* What the HTTP library (axios) hands to the response interceptor's error  *)
(* handler: an AxiosError with the request's config, a code, a message and, *)
(* when the server answered with a status outside 2xx, the response.        *)

\* Messages are sequences of words, so that String.includes is computed.
RECURSIVE JoinWords(_)
JoinWords(ws) ==
    IF ws = <<>> THEN ""
    ELSE IF Len(ws) = 1 THEN Head(ws)
    ELSE Head(ws) \o " " \o JoinWords(Tail(ws))

\* Failures with no response.  `cause` is what happened on the wire; the code
\* never sees it.  axios reports its configured timeout as code ECONNABORTED
\* with message "timeout of <n>ms exceeded"; every other failure carries the
\* code and message of the socket error.
NoResponseFailures ==
    { [cause |-> "configured-timeout", code |-> "ECONNABORTED",
       words |-> <<"timeout", "of", "30000ms", "exceeded">>],
      [cause |-> "connection-refused", code |-> "ECONNREFUSED",
       words |-> <<"connect", "ECONNREFUSED", "127.0.0.1:8080">>],
      [cause |-> "dns", code |-> "ENOTFOUND",
       words |-> <<"getaddrinfo", "ENOTFOUND", "api.mayl.ng">>],
      [cause |-> "connection-reset", code |-> "ECONNRESET",
       words |-> <<"socket", "hang", "up">>],
      [cause |-> "connection-aborted", code |-> "ECONNABORTED",
       words |-> <<"write", "ECONNABORTED">>],
      [cause |-> "connect-timeout", code |-> "ETIMEDOUT",
       words |-> <<"connect", "ETIMEDOUT", "10.0.0.1:8080">>] }

\* error.message.includes('timeout')
IncludesTimeout(message) == Includes(message, "timeout")

\* Bodies of an error response: none, an object without `error`, one with it.
ErrorBodies ==
    {Null, Obj([error |-> Undef]), Obj([error |-> Str("quota exceeded")]),
     Obj([error |-> Str("quota exceeded"), requestId |-> Str("srv_1")])}

\* The retry-after header of a response: absent, or a string.
RetryAfterHeaders ==
    {Undef, CStr(<<"0", "x", "1", "0">>)} \cup {CStr(cs) : cs \in HeaderChars}

StatusMessage(status) == "Request failed with status code " \o ToString(status)

\* The message of axios's own timeout names the timeout of the request.
AxiosNoResponse(config, f) ==
    [config |-> config, response |-> Undef, code |-> f.code,
     message |-> IF f.cause = "configured-timeout"
                 THEN "timeout of " \o JSToString(config.timeout) \o "ms exceeded"
                 ELSE JoinWords(f.words),
     cause |-> f.cause]

AxiosBadStatus(config, status, data, retryAfter) ==
    [config |-> config,
     response |-> [status |-> status, data |-> data,
                   headers |-> [retryAfter |-> retryAfter]],
     code |-> IF status >= 500 THEN "ERR_BAD_RESPONSE" ELSE "ERR_BAD_REQUEST",
     message |-> StatusMessage(status), cause |-> "status"]

\* What the promise of a request is rejected with when base URL and path do
\* not make an absolute URL.  The http adapter of axios joins the two and
\* hands the text to `new URL` after the request interceptor has run; a base
\* URL that is truthy and not a string fails in the join, which calls its
\* `replace`, and every other one (none, the empty text, a host without its
\* scheme) fails in `new URL`.  The rejection is the engine's TypeError as it
\* was thrown, not an AxiosError: it has no config and no response, and the
\* one of the join has no code either, for which the empty text stands.
AxiosInvalidUrl(config) ==
    LET joined == Truthy(config.baseURL) /\ config.baseURL.t # "string" IN
    [config |-> Undef, response |-> Undef,
     code |-> IF joined THEN "" ELSE "ERR_INVALID_URL",
     message |-> IF joined THEN "baseURL.replace is not a function"
                 ELSE "Invalid URL",
     cause |-> "invalid-url"]

\* (data as any)?.error
DataError(data) ==
    IF data.t \in {"undefined", "null"} THEN Undef ELSE data.f.error

-----------------------------------------------------------------------------
(* HTTPClient (inbox-sdk.ts 163-328).                                       *)

\* Largest reading of the clock (`new Date()`, `Date.now()`), counted from the
\* start of the model's hour.
MaxClock == 1

Times == 0..MaxClock

\* Number of distinct values Math.random() takes in the model.
RequestIdSpace == 2

\* Math.random().toString(36): the base-36 text of a draw from [0, 1).
MathRandom == {<<"0", ".", ToString(n)>> : n \in 1..RequestIdSpace}

\* str.substr(start, length)
Substr(cs, start, length) ==
    SubSeq(cs, start + 1, IF Len(cs) < start + length THEN Len(cs) ELSE start + length)

\* `req_${Date.now()}_${Math.random().toString(36).substr(2, 9)}`
generateRequestId(ms, draw) ==
    Str("req_" \o ToString(ms) \o "_" \o Join(Substr(draw, 2, 9)))

RequestIds == {generateRequestId(ms, draw) : ms \in Times, draw \in MathRandom}

\* The text of a value inside a template literal.
TemplateText(x) == JSToString(x)

\* new HTTPClient(config): the defaults, overridden by every property config
\* has, and the axios instance created from them.  Nothing is validated:
\* `...config` of undefined, of null or of a primitive spreads none of the
\* three properties, and a property that is there overrides the default
\* whatever its value.
HTTPClient_constructor(config) ==
    LET given == IF config.t = "object" THEN config.f
                 ELSE [apiKey |-> Missing, baseUrl |-> Missing, timeout |-> Missing]
        merged == [apiKey |-> Prop(given.apiKey),
                   baseUrl |-> IF given.baseUrl = Missing
                               THEN Str("http://api.mayl.ng:8080")
                               ELSE given.baseUrl,
                   timeout |-> IF given.timeout = Missing
                               THEN Num(30000)
                               ELSE given.timeout]
    IN  [config |-> merged,
         defaults |->
            [baseURL |-> merged.baseUrl,
             timeout |-> merged.timeout,
             headers |-> [Authorization |-> Str("Bearer " \o TemplateText(merged.apiKey)),
                          ContentType |-> Str("application/json"),
                          UserAgent |-> Str("maylng/0.1.0")]]]

\* HTTPClient.updateApiKey leaving the header of the axios instance as it was.
HTTPClient_updateApiKey_configOnly(c, apiKey) ==
    [c EXCEPT !.config.apiKey = apiKey]

\* HTTPClient.updateApiKey
HTTPClient_updateApiKey(c, apiKey) ==
    [c EXCEPT !.config.apiKey = apiKey,
              !.defaults.headers.Authorization =
                  Str("Bearer " \o TemplateText(apiKey))]

\* HTTPClient.updateBaseUrl storing the URL without handing it to axios.
HTTPClient_updateBaseUrl_configOnly(c, baseUrl) ==
    [c EXCEPT !.config.baseUrl = baseUrl]

\* HTTPClient.updateBaseUrl
HTTPClient_updateBaseUrl(c, baseUrl) ==
    [c EXCEPT !.config.baseUrl = baseUrl, !.defaults.baseURL = baseUrl]

\* The header parsed first and the number tested for truthiness: zero seconds
\* come out as no retryAfter at all.
RetryAfterOfParsedFirst(header) ==
    IF header = Undef THEN Undef
    ELSE LET n == ParseInt(header) IN IF Truthy(n) THEN n ELSE Undef

\* retryAfter ? parseInt(retryAfter) : undefined
RetryAfterOf(header) ==
    IF Truthy(header) THEN ParseInt(header) ELSE Undef

\* handleAPIError recognising a timeout by the message alone.
handleAPIErrorMessageOnly(err) ==
    LET requestId == IF err.config = Undef THEN Undef
                     ELSE err.config.headers.XRequestID
    IN
    IF err.response = Undef THEN
        IF IncludesTimeout(err.message)
        THEN TimeoutError("Request timeout", requestId)
        ELSE NetworkError("Network error: " \o err.message, requestId)
    ELSE
        LET status == err.response.status
            data == err.response.data
            message == OrElse(DataError(data), Str(err.message)).s
        IN  CASE status = 401 -> AuthenticationError(message, requestId)
              [] status = 403 -> AuthorizationError(message, requestId)
              [] status = 404 -> NotFoundError("Resource", Undef, requestId)
              [] status = 400 -> ValidationError(message, Undef, requestId)
              [] status = 429 ->
                    RateLimitError(message,
                                   RetryAfterOf(err.response.headers.retryAfter),
                                   requestId)
              [] status \in {500, 502, 503, 504} ->
                    ServerError(message, Num(status), requestId)
              [] OTHER ->
                    ServerError("HTTP " \o ToString(status) \o ": " \o message,
                                Num(status), requestId)

\* handleAPIError with the status left out of the default branch, so that
\* ServerError's default of 500 applies.
handleAPIErrorDefaultStatus(err) ==
    LET requestId == IF err.config = Undef THEN Undef
                     ELSE err.config.headers.XRequestID
    IN
    IF err.response = Undef THEN
        IF err.code = "ECONNABORTED" \/ IncludesTimeout(err.message)
        THEN TimeoutError("Request timeout", requestId)
        ELSE NetworkError("Network error: " \o err.message, requestId)
    ELSE
        LET status == err.response.status
            data == err.response.data
            message == OrElse(DataError(data), Str(err.message)).s
        IN  CASE status = 401 -> AuthenticationError(message, requestId)
              [] status = 403 -> AuthorizationError(message, requestId)
              [] status = 404 -> NotFoundError("Resource", Undef, requestId)
              [] status = 400 -> ValidationError(message, Undef, requestId)
              [] status = 429 ->
                    RateLimitError(message,
                                   RetryAfterOf(err.response.headers.retryAfter),
                                   requestId)
              [] status \in {500, 502, 503, 504} ->
                    ServerError(message, Num(status), requestId)
              [] OTHER ->
                    ServerError("HTTP " \o ToString(status) \o ": " \o message,
                                Num(500), requestId)

handleAPIError(err) ==
    LET requestId == IF err.config = Undef THEN Undef
                     ELSE err.config.headers.XRequestID
    IN
    IF err.response = Undef THEN
        IF err.code = "ECONNABORTED" \/ IncludesTimeout(err.message)
        THEN TimeoutError("Request timeout", requestId)
        ELSE NetworkError("Network error: " \o err.message, requestId)
    ELSE
        LET status == err.response.status
            data == err.response.data
            message == OrElse(DataError(data), Str(err.message)).s
        IN  CASE status = 401 -> AuthenticationError(message, requestId)
              [] status = 403 -> AuthorizationError(message, requestId)
              [] status = 404 -> NotFoundError("Resource", Undef, requestId)
              [] status = 400 -> ValidationError(message, Undef, requestId)
              [] status = 429 ->
                    RateLimitError(message,
                                   RetryAfterOf(err.response.headers.retryAfter),
                                   requestId)
              [] status \in {500, 502, 503, 504} ->
                    ServerError(message, Num(status), requestId)
              [] OTHER ->
                    ServerError("HTTP " \o ToString(status) \o ": " \o message,
                                Num(status), requestId)

-----------------------------------------------------------------------------
(* The two halves of an async operation.  The synchronous half ends in a    *)
(* throw or in the one request it awaits; the continuation receives the     *)
(* settled promise of the transport and ends in a throw or a return.        *)

Throw(e) == [t |-> "throw", error |-> e]
Return(v) == [t |-> "return", value |-> v]
\* A call of this.client.get/post/put/patch/delete(endpoint, data, config).
AwaitWith(method, endpoint, body, config) ==
    [t |-> "await", method |-> method, endpoint |-> endpoint, body |-> body,
     config |-> config]
\* The same call with no request config, as the services make it.
Await(method, endpoint, body) == AwaitWith(method, endpoint, body, Undef)

Rejected(e) == [t |-> "rejected", error |-> e]
Fulfilled(body) == [t |-> "fulfilled", body |-> body]

\* Reading property `name` of a value that is undefined or null.
CannotRead(x, name) ==
    RuntimeError("TypeError",
                 "Cannot read properties of " \o x.t \o " (reading '" \o name \o "')")

Nullish(x) == x.t \in {"undefined", "null"}

\* date.toISOString(): a RangeError for an invalid date.
toISOString(d) ==
    IF d.ms.t = "nan" THEN Throw(RuntimeError("RangeError", "Invalid time value"))
    ELSE Return(Str(IsoOfDate(d)))

-----------------------------------------------------------------------------
(* EmailService (email-service.ts).                                         *)

\* parseSentEmail: { ...data, sentAt: new Date(data.sentAt) }
parseSentEmail(data) ==
    IF Nullish(data) THEN Throw(CannotRead(data, "sentAt"))
    ELSE Return(Obj([data.f EXCEPT !.sentAt = NewDate(data.f.sentAt)]))

EmailService_get(id) ==
    IF ~Truthy(id) \/ TypeOf(id) # "string"
    THEN Throw(ValidationError("Email ID is required", Undef, Undef))
    ELSE Await("GET", "/emails/" \o id.s, Undef)

\* EmailService.get catching the transport's error and wrapping it.
EmailService_get_resume_wrapping(settled) ==
    IF settled.t = "rejected"
    THEN Throw(EmailSendError(settled.error.message, Undef))
    ELSE LET response == settled.body IN
         IF Nullish(response) THEN Throw(CannotRead(response, "success"))
         ELSE IF ~Truthy(response.f.success)
         THEN Throw(EmailSendError(
                  OrElse(response.f.error, Str("Failed to get email")).s, Undef))
         ELSE parseSentEmail(response.f.data)

EmailService_get_resume(settled) ==
    IF settled.t = "rejected" THEN Throw(settled.error)
    ELSE LET response == settled.body IN
         IF Nullish(response) THEN Throw(CannotRead(response, "success"))
         ELSE IF ~Truthy(response.f.success)
         THEN Throw(EmailSendError(
                  OrElse(response.f.error, Str("Failed to get email")).s, Undef))
         ELSE parseSentEmail(response.f.data)

EmailService_cancel(id) ==
    IF ~Truthy(id) \/ TypeOf(id) # "string"
    THEN Throw(ValidationError("Email ID is required", Undef, Undef))
    ELSE Await("POST", "/emails/" \o id.s \o "/cancel", Undef)

EmailService_cancel_resume(settled) ==
    IF settled.t = "rejected" THEN Throw(settled.error)
    ELSE LET response == settled.body IN
         IF Nullish(response) THEN Throw(CannotRead(response, "success"))
         ELSE IF ~Truthy(response.f.success)
         THEN Throw(EmailSendError(
                  OrElse(response.f.error, Str("Failed to cancel email")).s, Undef))
         ELSE Return(Undef)

EmailService_resend(id) ==
    IF ~Truthy(id) \/ TypeOf(id) # "string"
    THEN Throw(ValidationError("Email ID is required", Undef, Undef))
    ELSE Await("POST", "/emails/" \o id.s \o "/resend", Undef)

EmailService_resend_resume(settled) ==
    IF settled.t = "rejected" THEN Throw(settled.error)
    ELSE LET response == settled.body IN
         IF Nullish(response) THEN Throw(CannotRead(response, "success"))
         ELSE IF ~Truthy(response.f.success)
         THEN Throw(EmailSendError(
                  OrElse(response.f.error, Str("Failed to resend email")).s, Undef))
         ELSE parseSentEmail(response.f.data)

\* data.x ? new Date(data.x) : undefined
OptionalDate(x) == IF Truthy(x) THEN NewDate(x) ELSE Undef

EmailService_getDeliveryStatus(id) ==
    IF ~Truthy(id) \/ TypeOf(id) # "string"
    THEN Throw(ValidationError("Email ID is required", Undef, Undef))
    ELSE Await("GET", "/emails/" \o id.s \o "/status", Undef)

EmailService_getDeliveryStatus_resume(settled) ==
    IF settled.t = "rejected" THEN Throw(settled.error)
    ELSE LET response == settled.body IN
         IF Nullish(response) THEN Throw(CannotRead(response, "success"))
         ELSE IF ~Truthy(response.f.success)
         THEN Throw(EmailSendError(
                  OrElse(response.f.error, Str("Failed to get delivery status")).s,
                  Undef))
         ELSE LET data == response.f.data IN
              IF Nullish(data) THEN Throw(CannotRead(data, "status"))
              ELSE Return(Obj([status |-> data.f.status,
                               deliveredAt |-> OptionalDate(data.f.deliveredAt),
                               failureReason |-> data.f.failureReason,
                               bounceType |-> data.f.bounceType,
                               opens |-> data.f.opens,
                               clicks |-> data.f.clicks,
                               lastOpenedAt |-> OptionalDate(data.f.lastOpenedAt),
                               lastClickedAt |-> OptionalDate(data.f.lastClickedAt)]))

-----------------------------------------------------------------------------
(* EmailAddressService (unnamed/part_004, email-address-service.ts).        *)

\* parseEmailAddress
\* parseEmailAddress converting the expiry whatever it is: `new Date(null)`
\* for null.
parseEmailAddress_alwaysDate(data) ==
    IF Nullish(data) THEN Throw(CannotRead(data, "createdAt"))
    ELSE Return(Obj([data.f EXCEPT
                        !.createdAt = NewDate(data.f.createdAt),
                        !.expiresAt = NewDate(data.f.expiresAt)]))

parseEmailAddress(data) ==
    IF Nullish(data) THEN Throw(CannotRead(data, "createdAt"))
    ELSE Return(Obj([data.f EXCEPT
                        !.createdAt = NewDate(data.f.createdAt),
                        !.expiresAt = IF Truthy(data.f.expiresAt)
                                      THEN NewDate(data.f.expiresAt) ELSE Null]))

\* validateCreateOptions without the rule for persistent addresses.
validateCreateOptions_anyType(options) ==
    IF ~Truthy(options) \/ TypeOf(options) # "object"
    THEN Throw(ValidationError("Options object is required", Undef, Undef))
    ELSE LET o == options.f IN
    IF ~Truthy(o.type) \/ o.type \notin {Str("temporary"), Str("persistent")}
    THEN Throw(ValidationError(
             "Type must be either \"temporary\" or \"persistent\"", Undef, Undef))
    ELSE IF Truthy(o.prefix) /\ TypeOf(o.prefix) # "string"
    THEN Throw(ValidationError("Prefix must be a string", Undef, Undef))
    ELSE IF Truthy(o.domain) /\ TypeOf(o.domain) # "string"
    THEN Throw(ValidationError("Domain must be a string", Undef, Undef))
    ELSE IF o.expirationMinutes # Undef
            /\ (TypeOf(o.expirationMinutes) # "number" \/ LeqZero(o.expirationMinutes))
    THEN Throw(ValidationError(
             "Expiration minutes must be a positive number", Undef, Undef))
    ELSE IF Truthy(o.metadata) /\ TypeOf(o.metadata) # "object"
    THEN Throw(ValidationError("Metadata must be an object", Undef, Undef))
    ELSE Return(Undef)

validateCreateOptions(options) ==
    IF ~Truthy(options) \/ TypeOf(options) # "object"
    THEN Throw(ValidationError("Options object is required", Undef, Undef))
    ELSE LET o == options.f IN
    IF ~Truthy(o.type) \/ o.type \notin {Str("temporary"), Str("persistent")}
    THEN Throw(ValidationError(
             "Type must be either \"temporary\" or \"persistent\"", Undef, Undef))
    ELSE IF Truthy(o.prefix) /\ TypeOf(o.prefix) # "string"
    THEN Throw(ValidationError("Prefix must be a string", Undef, Undef))
    ELSE IF Truthy(o.domain) /\ TypeOf(o.domain) # "string"
    THEN Throw(ValidationError("Domain must be a string", Undef, Undef))
    ELSE IF o.expirationMinutes # Undef
            /\ (TypeOf(o.expirationMinutes) # "number" \/ LeqZero(o.expirationMinutes))
    THEN Throw(ValidationError(
             "Expiration minutes must be a positive number", Undef, Undef))
    ELSE IF o.expirationMinutes # Undef /\ o.type = Str("persistent")
    THEN Throw(ValidationError(
             "Expiration minutes cannot be set for persistent email addresses",
             Undef, Undef))
    ELSE IF Truthy(o.metadata) /\ TypeOf(o.metadata) # "object"
    THEN Throw(ValidationError("Metadata must be an object", Undef, Undef))
    ELSE Return(Undef)

EmailAddressService_create(options) ==
    LET v == validateCreateOptions(options) IN
    IF v.t = "throw" THEN v
    ELSE Await("POST", "/email-addresses",
               Obj([type |-> options.f.type,
                    prefix |-> options.f.prefix,
                    domain |-> options.f.domain,
                    expirationMinutes |-> options.f.expirationMinutes,
                    metadata |-> options.f.metadata]))

EmailAddressService_create_resume(settled) ==
    IF settled.t = "rejected" THEN Throw(settled.error)
    ELSE LET response == settled.body IN
         IF Nullish(response) THEN Throw(CannotRead(response, "success"))
         ELSE IF ~Truthy(response.f.success)
         THEN Throw(EmailAddressError(
                  OrElse(response.f.error, Str("Failed to create email address")).s,
                  Undef))
         ELSE parseEmailAddress(response.f.data)

EmailAddressService_get(id) ==
    IF ~Truthy(id) \/ TypeOf(id) # "string"
    THEN Throw(ValidationError("Email address ID is required", Undef, Undef))
    ELSE Await("GET", "/email-addresses/" \o id.s, Undef)

EmailAddressService_get_resume(settled) ==
    IF settled.t = "rejected" THEN Throw(settled.error)
    ELSE LET response == settled.body IN
         IF Nullish(response) THEN Throw(CannotRead(response, "success"))
         ELSE IF ~Truthy(response.f.success)
         THEN Throw(EmailAddressError(
                  OrElse(response.f.error, Str("Failed to get email address")).s,
                  Undef))
         ELSE parseEmailAddress(response.f.data)

EmailAddressService_update(id, updates) ==
    IF ~Truthy(id) \/ TypeOf(id) # "string"
    THEN Throw(ValidationError("Email address ID is required", Undef, Undef))
    ELSE IF ~Truthy(updates) \/ TypeOf(updates) # "object"
    THEN Throw(ValidationError("Updates object is required", Undef, Undef))
    ELSE Await("PATCH", "/email-addresses/" \o id.s, updates)

EmailAddressService_update_resume(settled) ==
    IF settled.t = "rejected" THEN Throw(settled.error)
    ELSE LET response == settled.body IN
         IF Nullish(response) THEN Throw(CannotRead(response, "success"))
         ELSE IF ~Truthy(response.f.success)
         THEN Throw(EmailAddressError(
                  OrElse(response.f.error, Str("Failed to update email address")).s,
                  Undef))
         ELSE parseEmailAddress(response.f.data)

EmailAddressService_delete(id) ==
    IF ~Truthy(id) \/ TypeOf(id) # "string"
    THEN Throw(ValidationError("Email address ID is required", Undef, Undef))
    ELSE Await("DELETE", "/email-addresses/" \o id.s, Undef)

\* EmailAddressService.delete without the test of the envelope's success.
EmailAddressService_delete_resume_unchecked(settled) ==
    IF settled.t = "rejected" THEN Throw(settled.error)
    ELSE LET response == settled.body IN
         IF Nullish(response) THEN Throw(CannotRead(response, "success"))
         ELSE Return(Undef)

EmailAddressService_delete_resume(settled) ==
    IF settled.t = "rejected" THEN Throw(settled.error)
    ELSE LET response == settled.body IN
         IF Nullish(response) THEN Throw(CannotRead(response, "success"))
         ELSE IF ~Truthy(response.f.success)
         THEN Throw(EmailAddressError(
                  OrElse(response.f.error, Str("Failed to delete email address")).s,
                  Undef))
         ELSE Return(Undef)

EmailAddressService_extend(id, additionalMinutes) ==
    IF ~Truthy(id) \/ TypeOf(id) # "string"
    THEN Throw(ValidationError("Email address ID is required", Undef, Undef))
    ELSE IF ~Truthy(additionalMinutes) \/ LeqZero(additionalMinutes)
    THEN Throw(ValidationError(
             "Additional minutes must be a positive number", Undef, Undef))
    ELSE Await("POST", "/email-addresses/" \o id.s \o "/extend",
               Obj([additionalMinutes |-> additionalMinutes]))

EmailAddressService_extend_resume(settled) ==
    IF settled.t = "rejected" THEN Throw(settled.error)
    ELSE LET response == settled.body IN
         IF Nullish(response) THEN Throw(CannotRead(response, "success"))
         ELSE IF ~Truthy(response.f.success)
         THEN Throw(EmailAddressError(
                  OrElse(response.f.error, Str("Failed to extend email address")).s,
                  Undef))
         ELSE parseEmailAddress(response.f.data)

-----------------------------------------------------------------------------
(* Query strings (URLSearchParams) and the two list operations.             *)

\* options?.name
Opt(x, name) == IF Nullish(x) THEN Undef ELSE x.f[name]

\* The text URLSearchParams.append makes of a value, and value.toString().
ToStr(x) == JSToString(x)

\* The bytes UTF-8 writes for the character of a code up to U+FFFF.
Utf8Encode(code) ==
    IF code < 128 THEN <<code>>
    ELSE IF code < 2048 THEN <<192 + (code \div 64), 128 + (code % 64)>>
    ELSE <<224 + (code \div 4096), 128 + ((code \div 64) % 64), 128 + (code % 64)>>

\* A byte as % and two hexadecimal digits.
PercentByte(b) ==
    "%" \o SubSeq("0123456789ABCDEF", (b \div 16) + 1, (b \div 16) + 1)
        \o SubSeq("0123456789ABCDEF", (b % 16) + 1, (b % 16) + 1)

\* The application/x-www-form-urlencoded form of a character: a letter, a
\* digit and * - . _ stay, the space becomes +, and of any other character
\* each byte of its UTF-8 form is written as % and two hexadecimal digits.
FormEncodeChar(c) ==
    IF c = " " THEN "+"
    ELSE IF CharCode(c) \in 48..57 \cup 65..90 \cup 97..122 \/ c \in {"*", "-", ".", "_"}
    THEN c
    ELSE Join([i \in 1..Len(Utf8Encode(CharCode(c))) |->
                  PercentByte(Utf8Encode(CharCode(c))[i])])

\* The form encoding of a parameter value.
FormEncode(v) == Join([i \in 1..Len(v) |-> FormEncodeChar(SubSeq(v, i, i))])

\* URLSearchParams.toString of the appended <<name, value>> pairs.
RECURSIVE QueryString(_)
QueryString(params) ==
    IF params = <<>> THEN ""
    ELSE Head(params)[1] \o "=" \o FormEncode(Head(params)[2])
         \o (IF Len(params) > 1 THEN "&" ELSE "") \o QueryString(Tail(params))

\* if (value) params.append(name, text)
AppendIf(params, value, name, text) ==
    IF Truthy(value) THEN Append(params, <<name, text>>) ELSE params

\* items.map(parse) where parse may throw: the first throw wins.
MapResults(rs) ==
    IF \E i \in 1..Len(rs) : rs[i].t = "throw"
    THEN rs[CHOOSE i \in 1..Len(rs) :
                rs[i].t = "throw" /\ \A j \in 1..(i - 1) : rs[j].t # "throw"]
    ELSE Return(Arr([i \in 1..Len(rs) |-> rs[i].value]))

EmailAddressService_list(options) ==
    LET pagination == Opt(options, "pagination")
        p1 == AppendIf(<<>>, Opt(options, "type"), "type", ToStr(Opt(options, "type")))
        p2 == AppendIf(p1, Opt(options, "status"), "status",
                       ToStr(Opt(options, "status")))
        p3 == AppendIf(p2, Opt(pagination, "page"), "page",
                       ToStr(Opt(pagination, "page")))
        p4 == AppendIf(p3, Opt(pagination, "limit"), "limit",
                       ToStr(Opt(pagination, "limit")))
        queryString == QueryString(p4)
    IN  Await("GET",
              IF queryString # "" THEN "/email-addresses?" \o queryString
                                  ELSE "/email-addresses",
              Undef)

EmailAddressService_list_resume(settled) ==
    IF settled.t = "rejected" THEN Throw(settled.error)
    ELSE LET response == settled.body IN
         IF Nullish(response) THEN Throw(CannotRead(response, "success"))
         ELSE IF ~Truthy(response.f.success)
         THEN Throw(EmailAddressError(
                  OrElse(response.f.error, Str("Failed to list email addresses")).s,
                  Undef))
         ELSE LET data == response.f.data IN
              IF Nullish(data) THEN Throw(CannotRead(data, "items"))
              ELSE IF Nullish(data.f.items) THEN Throw(CannotRead(data.f.items, "map"))
              ELSE LET items == MapResults([i \in 1..Len(data.f.items.a) |->
                                              parseEmailAddress(data.f.items.a[i])])
                   IN  IF items.t = "throw" THEN items
                       ELSE Return(Obj([data.f EXCEPT !.items = items.value]))

\* options.name.toISOString() for a filter that is truthy.
FilterDate(value, name) ==
    IF ~Truthy(value) THEN Return(Undef)
    ELSE IF value.t # "date"
    THEN Throw(RuntimeError("TypeError",
                            "options." \o name \o ".toISOString is not a function"))
    ELSE toISOString(value)

EmailService_list(options) ==
    LET pagination == Opt(options, "pagination")
        p1 == AppendIf(<<>>, Opt(options, "fromEmailId"), "fromEmailId",
                       ToStr(Opt(options, "fromEmailId")))
        p2 == AppendIf(p1, Opt(options, "status"), "status",
                       ToStr(Opt(options, "status")))
        p3 == AppendIf(p2, Opt(options, "threadId"), "threadId",
                       ToStr(Opt(options, "threadId")))
        since == FilterDate(Opt(options, "since"), "since")
        until == FilterDate(Opt(options, "until"), "until")
    IN  IF since.t = "throw" THEN since
        ELSE IF until.t = "throw" THEN until
        ELSE
        LET p4 == AppendIf(p3, Opt(options, "since"), "since", ToStr(since.value))
            p5 == AppendIf(p4, Opt(options, "until"), "until", ToStr(until.value))
            p6 == AppendIf(p5, Opt(pagination, "page"), "page",
                           ToStr(Opt(pagination, "page")))
            p7 == AppendIf(p6, Opt(pagination, "limit"), "limit",
                           ToStr(Opt(pagination, "limit")))
            queryString == QueryString(p7)
        IN  Await("GET",
                  IF queryString # "" THEN "/emails?" \o queryString ELSE "/emails",
                  Undef)

EmailService_list_resume(settled) ==
    IF settled.t = "rejected" THEN Throw(settled.error)
    ELSE LET response == settled.body IN
         IF Nullish(response) THEN Throw(CannotRead(response, "success"))
         ELSE IF ~Truthy(response.f.success)
         THEN Throw(EmailSendError(
                  OrElse(response.f.error, Str("Failed to list emails")).s, Undef))
         ELSE LET data == response.f.data IN
              IF Nullish(data) THEN Throw(CannotRead(data, "items"))
              ELSE IF Nullish(data.f.items) THEN Throw(CannotRead(data.f.items, "map"))
              ELSE LET items == MapResults([i \in 1..Len(data.f.items.a) |->
                                              parseSentEmail(data.f.items.a[i])])
                   IN  IF items.t = "throw" THEN items
                       ELSE Return(Obj([data.f EXCEPT !.items = items.value]))

-----------------------------------------------------------------------------
(* EmailService.send and its validation.                                    *)

\* /^[^\s@]+@[^\s@]+\.[^\s@]+$/.test(email): one "@" that is not first, a "."
\* after it with a character between and a character behind, and no white
\* space or second "@" anywhere.
emailRegexTest(email) ==
    LET cs == Chars(email.s)
        plain(c) == c \notin WhiteSpace \cup {"@"}
    IN  \E i \in 2..Len(cs) : \E j \in (i + 2)..(Len(cs) - 1) :
            /\ cs[i] = "@"
            /\ cs[j] = "."
            /\ \A k \in 1..Len(cs) : k # i => plain(cs[k])

validateEmailRecipient(recipient, field) ==
    IF ~Truthy(recipient) \/ TypeOf(recipient) # "object"
    THEN Throw(ValidationError(field \o " must be an object", Undef, Undef))
    ELSE IF ~Truthy(recipient.f.email) \/ TypeOf(recipient.f.email) # "string"
    THEN Throw(ValidationError(field \o ".email is required", Undef, Undef))
    ELSE IF ~emailRegexTest(recipient.f.email)
    THEN Throw(ValidationError(field \o ".email is not a valid email address",
                               Undef, Undef))
    ELSE IF Truthy(recipient.f.name) /\ TypeOf(recipient.f.name) # "string"
    THEN Throw(ValidationError(field \o ".name must be a string", Undef, Undef))
    ELSE Return(Undef)

\* The values forEach hands to its callback: the elements of an array, the
\* bytes of a Buffer as numbers.
ForEachItems(list) ==
    IF list.t = "array" THEN list.a
    ELSE [i \in 1..Len(list.bytes) |-> Num(list.bytes[i])]

\* list.forEach((recipient, index) => validateEmailRecipient(recipient,
\* `name[index]`)); an array and a Buffer have forEach, of any other value
\* of the model the call is a TypeError.
validateRecipients(list, name) ==
    IF list.t \notin {"array", "buffer"}
    THEN Throw(RuntimeError("TypeError", "options." \o name \o ".forEach is not a function"))
    ELSE LET rs == MapResults([i \in 1..Len(ForEachItems(list)) |->
                     validateEmailRecipient(ForEachItems(list)[i],
                                            name \o "[" \o ToString(i - 1) \o "]")])
         IN  IF rs.t = "throw" THEN rs ELSE Return(Undef)

validateEmailAttachment(attachment, field) ==
    IF ~Truthy(attachment) \/ TypeOf(attachment) # "object"
    THEN Throw(ValidationError(field \o " must be an object", Undef, Undef))
    ELSE IF ~Truthy(attachment.f.filename) \/ TypeOf(attachment.f.filename) # "string"
    THEN Throw(ValidationError(field \o ".filename is required", Undef, Undef))
    ELSE IF ~Truthy(attachment.f.contentType)
            \/ TypeOf(attachment.f.contentType) # "string"
    THEN Throw(ValidationError(field \o ".contentType is required", Undef, Undef))
    ELSE IF ~Truthy(attachment.f.content)
    THEN Throw(ValidationError(field \o ".content is required", Undef, Undef))
    ELSE IF TypeOf(attachment.f.content) # "string" /\ attachment.f.content.t # "buffer"
    THEN Throw(ValidationError(field \o ".content must be a string or Buffer",
                               Undef, Undef))
    ELSE IF Truthy(attachment.f.cid) /\ TypeOf(attachment.f.cid) # "string"
    THEN Throw(ValidationError(field \o ".cid must be a string", Undef, Undef))
    ELSE Return(Undef)

\* validateSendOptions without the rule that text or html is present.
validateSendOptions_noContentRule(options, instant) ==
    IF ~Truthy(options) \/ TypeOf(options) # "object"
    THEN Throw(ValidationError("Options object is required", Undef, Undef))
    ELSE LET o == options.f IN
    IF ~Truthy(o.fromEmailId) \/ TypeOf(o.fromEmailId) # "string"
    THEN Throw(ValidationError("From email ID is required", Undef, Undef))
    ELSE IF ~Truthy(o.to) \/ o.to.t # "array" \/ Len(o.to.a) = 0
    THEN Throw(ValidationError("At least one recipient is required", Undef, Undef))
    ELSE IF validateRecipients(o.to, "to").t = "throw"
    THEN validateRecipients(o.to, "to")
    ELSE IF Truthy(o.cc) /\ validateRecipients(o.cc, "cc").t = "throw"
    THEN validateRecipients(o.cc, "cc")
    ELSE IF Truthy(o.bcc) /\ validateRecipients(o.bcc, "bcc").t = "throw"
    THEN validateRecipients(o.bcc, "bcc")
    ELSE IF ~Truthy(o.subject) \/ TypeOf(o.subject) # "string"
            \/ Len(Trim(Chars(o.subject.s))) = 0
    THEN Throw(ValidationError("Subject is required", Undef, Undef))
    ELSE IF Truthy(o.text) /\ TypeOf(o.text) # "string"
    THEN Throw(ValidationError("Text content must be a string", Undef, Undef))
    ELSE IF Truthy(o.html) /\ TypeOf(o.html) # "string"
    THEN Throw(ValidationError("HTML content must be a string", Undef, Undef))
    ELSE IF Truthy(o.attachments) /\ o.attachments.t # "array"
    THEN Throw(ValidationError("Attachments must be an array", Undef, Undef))
    ELSE IF Truthy(o.attachments)
            /\ MapResults([i \in 1..Len(o.attachments.a) |->
                  validateEmailAttachment(o.attachments.a[i],
                      "attachments[" \o ToString(i - 1) \o "]")]).t = "throw"
    THEN MapResults([i \in 1..Len(o.attachments.a) |->
                  validateEmailAttachment(o.attachments.a[i],
                      "attachments[" \o ToString(i - 1) \o "]")])
    ELSE IF Truthy(o.scheduledAt) /\ o.scheduledAt.t # "date"
    THEN Throw(ValidationError("Scheduled at must be a Date object", Undef, Undef))
    ELSE IF Truthy(o.scheduledAt) /\ DateLeq(o.scheduledAt, DateV(Num(instant)))
    THEN Throw(ValidationError("Scheduled time must be in the future", Undef, Undef))
    ELSE IF Truthy(o.threadId) /\ TypeOf(o.threadId) # "string"
    THEN Throw(ValidationError("Thread ID must be a string", Undef, Undef))
    ELSE IF Truthy(o.metadata) /\ TypeOf(o.metadata) # "object"
    THEN Throw(ValidationError("Metadata must be an object", Undef, Undef))
    ELSE Return(Undef)

validateSendOptions(options, instant) ==
    IF ~Truthy(options) \/ TypeOf(options) # "object"
    THEN Throw(ValidationError("Options object is required", Undef, Undef))
    ELSE LET o == options.f IN
    IF ~Truthy(o.fromEmailId) \/ TypeOf(o.fromEmailId) # "string"
    THEN Throw(ValidationError("From email ID is required", Undef, Undef))
    ELSE IF ~Truthy(o.to) \/ o.to.t # "array" \/ Len(o.to.a) = 0
    THEN Throw(ValidationError("At least one recipient is required", Undef, Undef))
    ELSE IF validateRecipients(o.to, "to").t = "throw"
    THEN validateRecipients(o.to, "to")
    ELSE IF Truthy(o.cc) /\ validateRecipients(o.cc, "cc").t = "throw"
    THEN validateRecipients(o.cc, "cc")
    ELSE IF Truthy(o.bcc) /\ validateRecipients(o.bcc, "bcc").t = "throw"
    THEN validateRecipients(o.bcc, "bcc")
    ELSE IF ~Truthy(o.subject) \/ TypeOf(o.subject) # "string"
            \/ Len(Trim(Chars(o.subject.s))) = 0
    THEN Throw(ValidationError("Subject is required", Undef, Undef))
    ELSE IF ~Truthy(o.text) /\ ~Truthy(o.html)
    THEN Throw(ValidationError("Either text or HTML content is required", Undef, Undef))
    ELSE IF Truthy(o.text) /\ TypeOf(o.text) # "string"
    THEN Throw(ValidationError("Text content must be a string", Undef, Undef))
    ELSE IF Truthy(o.html) /\ TypeOf(o.html) # "string"
    THEN Throw(ValidationError("HTML content must be a string", Undef, Undef))
    ELSE IF Truthy(o.attachments) /\ o.attachments.t # "array"
    THEN Throw(ValidationError("Attachments must be an array", Undef, Undef))
    ELSE IF Truthy(o.attachments)
            /\ MapResults([i \in 1..Len(o.attachments.a) |->
                  validateEmailAttachment(o.attachments.a[i],
                      "attachments[" \o ToString(i - 1) \o "]")]).t = "throw"
    THEN MapResults([i \in 1..Len(o.attachments.a) |->
                  validateEmailAttachment(o.attachments.a[i],
                      "attachments[" \o ToString(i - 1) \o "]")])
    ELSE IF Truthy(o.scheduledAt) /\ o.scheduledAt.t # "date"
    THEN Throw(ValidationError("Scheduled at must be a Date object", Undef, Undef))
    ELSE IF Truthy(o.scheduledAt) /\ DateLeq(o.scheduledAt, DateV(Num(instant)))
    THEN Throw(ValidationError("Scheduled time must be in the future", Undef, Undef))
    ELSE IF Truthy(o.threadId) /\ TypeOf(o.threadId) # "string"
    THEN Throw(ValidationError("Thread ID must be a string", Undef, Undef))
    ELSE IF Truthy(o.metadata) /\ TypeOf(o.metadata) # "object"
    THEN Throw(ValidationError("Metadata must be an object", Undef, Undef))
    ELSE Return(Undef)

\* validateSendOptions reaches its reading of the clock, `new Date()` in
\* `options.scheduledAt <= new Date()`: scheduledAt is a Date and no check
\* ahead of that line throws.  The checks behind it are those of threadId and
\* metadata.
ReadsClock(options) ==
    /\ Truthy(options) /\ TypeOf(options) = "object"
    /\ Truthy(options.f.scheduledAt) /\ options.f.scheduledAt.t = "date"
    /\ validateSendOptions(
          Obj([options.f EXCEPT !.scheduledAt = Undef, !.threadId = Undef,
                                !.metadata = Undef]), 0).t = "return"

\* The base64 alphabet.
B64 ==
    << "A", "B", "C", "D", "E", "F", "G", "H", "I", "J", "K", "L", "M",
       "N", "O", "P", "Q", "R", "S", "T", "U", "V", "W", "X", "Y", "Z",
       "a", "b", "c", "d", "e", "f", "g", "h", "i", "j", "k", "l", "m",
       "n", "o", "p", "q", "r", "s", "t", "u", "v", "w", "x", "y", "z",
       "0", "1", "2", "3", "4", "5", "6", "7", "8", "9", "+", "/" >>

\* Buffer.prototype.toString('base64'), as the characters of the string.
RECURSIVE Base64(_)
Base64(bytes) ==
    IF bytes = <<>> THEN <<>>
    ELSE LET n == Len(bytes)
             b1 == bytes[1]
             b2 == IF n >= 2 THEN bytes[2] ELSE 0
             b3 == IF n >= 3 THEN bytes[3] ELSE 0
         IN  << B64[(b1 \div 4) + 1],
                B64[((b1 % 4) * 16 + (b2 \div 16)) + 1],
                IF n >= 2 THEN B64[((b2 % 16) * 4 + (b3 \div 64)) + 1] ELSE "=",
                IF n >= 3 THEN B64[(b3 % 64) + 1] ELSE "=" >>
             \o (IF n > 3 THEN Base64(SubSeq(bytes, 4, n)) ELSE <<>>)

\* processAttachment handing the content over as it is.
processAttachment_asIs(attachment) ==
    Obj([filename |-> attachment.f.filename,
         contentType |-> attachment.f.contentType,
         content |-> attachment.f.content,
         cid |-> attachment.f.cid])

processAttachment(attachment) ==
    Obj([filename |-> attachment.f.filename,
         contentType |-> attachment.f.contentType,
         content |-> IF attachment.f.content.t = "buffer"
                     THEN CStr(Base64(attachment.f.content.bytes))
                     ELSE attachment.f.content,
         cid |-> attachment.f.cid])

\* options.attachments?.map(this.processAttachment): undefined for undefined
\* or null, a TypeError for any other value that is not an array.
processAttachments(attachments) ==
    IF Nullish(attachments) THEN Return(Undef)
    ELSE IF attachments.t # "array"
    THEN Throw(RuntimeError("TypeError", "options.attachments?.map is not a function"))
    ELSE Return(Arr([i \in 1..Len(attachments.a) |->
                       processAttachment(attachments.a[i])]))

\* options.scheduledAt?.toISOString()
scheduledAtISO(scheduledAt) ==
    IF Nullish(scheduledAt) THEN Return(Undef)
    ELSE IF scheduledAt.t # "date"
    THEN Throw(RuntimeError("TypeError",
                            "options.scheduledAt?.toISOString is not a function"))
    ELSE toISOString(scheduledAt)

EmailService_send(options, instant) ==
    LET v == validateSendOptions(options, instant) IN
    IF v.t = "throw" THEN v
    ELSE LET o == options.f
             attachments == processAttachments(o.attachments)
             scheduledAt == scheduledAtISO(o.scheduledAt)
         IN  IF attachments.t = "throw" THEN attachments
             ELSE IF scheduledAt.t = "throw" THEN scheduledAt
             ELSE Await("POST", "/emails/send",
                        Obj([fromEmailId |-> o.fromEmailId,
                             to |-> o.to,
                             cc |-> o.cc,
                             bcc |-> o.bcc,
                             subject |-> o.subject,
                             text |-> o.text,
                             html |-> o.html,
                             attachments |-> attachments.value,
                             headers |-> o.headers,
                             scheduledAt |-> scheduledAt.value,
                             threadId |-> o.threadId,
                             metadata |-> o.metadata]))

EmailService_send_resume(settled) ==
    IF settled.t = "rejected" THEN Throw(settled.error)
    ELSE LET response == settled.body IN
         IF Nullish(response) THEN Throw(CannotRead(response, "success"))
         ELSE IF ~Truthy(response.f.success)
         THEN Throw(EmailSendError(
                  OrElse(response.f.error, Str("Failed to send email")).s, Undef))
         ELSE parseSentEmail(response.f.data)

-----------------------------------------------------------------------------
(* InboxSDK (inbox-sdk.ts 10-137): the facade's two helpers.                *)

\* InboxSDK.validateConfig
validateConfig(config) ==
    IF ~Truthy(config) \/ TypeOf(config) # "object"
    THEN Throw(ValidationError("Configuration object is required", Undef, Undef))
    ELSE LET apiKey == Prop(config.f.apiKey)
             baseUrl == Prop(config.f.baseUrl)
             timeout == Prop(config.f.timeout)
         IN  IF ~Truthy(apiKey) \/ TypeOf(apiKey) # "string"
             THEN Throw(ValidationError("API key is required and must be a string",
                                        Undef, Undef))
             ELSE IF Truthy(baseUrl) /\ TypeOf(baseUrl) # "string"
             THEN Throw(ValidationError("Base URL must be a string", Undef, Undef))
             ELSE IF timeout # Undef
                     /\ (TypeOf(timeout) # "number" \/ LeqZero(timeout))
             THEN Throw(ValidationError("Timeout must be a positive number",
                                        Undef, Undef))
             ELSE Return(Undef)

\* new InboxSDK(config): the value returned is the transport adapter the
\* facade and its two services share.
InboxSDK_constructor(config) ==
    LET v == validateConfig(config) IN
    IF v.t = "throw" THEN v ELSE Return(HTTPClient_constructor(config))

\* The configuration of the README's quick start, and its client.
DefaultConfig == Obj([apiKey |-> Str("k1"), baseUrl |-> Missing, timeout |-> Missing])

DefaultClient == HTTPClient_constructor(DefaultConfig)

\* The outcome of a method that reconfigures the transport adapter c: what it
\* throws or returns, and the adapter it leaves.
Reconfigured(r, c) == [t |-> r.t, error |-> IF r.t = "throw" THEN r.error ELSE None,
                       client |-> c]

\* InboxSDK.updateApiKey with the assignment ahead of the test.
InboxSDK_updateApiKey_assignFirst(c, apiKey) ==
    IF ~Truthy(apiKey) \/ TypeOf(apiKey) # "string"
    THEN Reconfigured(
            Throw(ValidationError("API key is required and must be a string",
                                  Undef, Undef)),
            HTTPClient_updateApiKey(c, apiKey))
    ELSE Reconfigured(Return(Undef), HTTPClient_updateApiKey(c, apiKey))

\* InboxSDK.updateApiKey
InboxSDK_updateApiKey(c, apiKey) ==
    IF ~Truthy(apiKey) \/ TypeOf(apiKey) # "string"
    THEN Reconfigured(
            Throw(ValidationError("API key is required and must be a string",
                                  Undef, Undef)),
            c)
    ELSE Reconfigured(Return(Undef), HTTPClient_updateApiKey(c, apiKey))

\* InboxSDK.updateBaseUrl
InboxSDK_updateBaseUrl(c, baseUrl) ==
    IF ~Truthy(baseUrl) \/ TypeOf(baseUrl) # "string"
    THEN Reconfigured(
            Throw(ValidationError("Base URL is required and must be a string",
                                  Undef, Undef)),
            c)
    ELSE Reconfigured(Return(Undef), HTTPClient_updateBaseUrl(c, baseUrl))

InboxSDK_healthCheck == Await("GET", "/health", Undef)

\* The body of the try block, after the await.
healthCheckTry(response, instant) ==
    IF Nullish(response) THEN Throw(CannotRead(response, "data"))
    ELSE LET data == response.f.data IN
         IF Nullish(data) THEN Throw(CannotRead(data, "message"))
         ELSE Return(Obj([status |-> Str("healthy"),
                          message |-> OrElse(data.f.message, Str("API is healthy")),
                          timestamp |-> DateV(Num(instant)),
                          apiVersion |-> data.f.apiVersion,
                          accountId |-> data.f.accountId]))

\* catch (error) { return { status: 'unhealthy', ... } }
healthCheckCatch(e, instant) ==
    Return(Obj([status |-> Str("unhealthy"),
                message |-> OrElse(Str(e.message), Str("Health check failed")),
                timestamp |-> DateV(Num(instant)),
                apiVersion |-> Undef,
                accountId |-> Undef]))

\* healthCheck without its catch block: what the try block throws, and what
\* the transport rejected with, reaches the caller.
InboxSDK_healthCheck_resume_uncaught(settled, instant) ==
    IF settled.t = "rejected" THEN Throw(settled.error)
    ELSE healthCheckTry(settled.body, instant)

InboxSDK_healthCheck_resume(settled, instant) ==
    IF settled.t = "rejected" THEN healthCheckCatch(settled.error, instant)
    ELSE LET r == healthCheckTry(settled.body, instant) IN
         IF r.t = "throw" THEN healthCheckCatch(r.error, instant) ELSE r

InboxSDK_getAccountInfo == Await("GET", "/account", Undef)

InboxSDK_getAccountInfo_resume(settled) ==
    IF settled.t = "rejected" THEN Throw(settled.error)
    ELSE LET response == settled.body IN
         IF Nullish(response) THEN Throw(CannotRead(response, "data"))
         ELSE LET data == response.f.data IN
              IF Nullish(data) THEN Throw(CannotRead(data, "createdAt"))
              ELSE Return(Obj([data.f EXCEPT
                                  !.createdAt = NewDate(data.f.createdAt),
                                  !.lastActivity = NewDate(data.f.lastActivity)]))

-----------------------------------------------------------------------------
(* The arguments callers pass.  JavaScript callers are not held to the      *)
(* declared types, which is why the code checks types at run time.          *)

IdInputs == {Undef, Null, Str(""), Str("e1"), Num(7)}

\* Arguments of new InboxSDK.
ConfigInputs ==
    {Undef, Null, Str("k1")} \cup
    { Obj([apiKey |-> k, baseUrl |-> u, timeout |-> ms]) :
        k \in {Missing, Undef, Str(""), Num(7), Str("k1")},
        u \in {Missing, Undef, Null, Str(""), Num(0), Bool(FALSE), Num(8080),
               Str("https://staging.mayl.ng")},
        ms \in {Missing, Undef, Null, Num(0), Num(-1), Num(5000), NaNv,
                Sci(15, -1), Inf(FALSE), CStr(<<"5", "0", "0", "0">>)} }

\* Arguments of updateApiKey and of updateBaseUrl.
KeyInputs == {Undef, Null, Str(""), Num(7), Str("k1"), Str("k2")}

UrlInputs == {Undef, Str(""), Num(0), Obj([href |-> Str("https://staging.mayl.ng")]),
              Str("https://staging.mayl.ng"), Str("staging.mayl.ng")}

CreateInputs ==
    {Undef} \cup
    { Obj([type |-> ty, prefix |-> pre, domain |-> Undef,
           expirationMinutes |-> ex, metadata |-> md]) :
        ty \in {Undef, Str("temporary"), Str("persistent"), Str("forever")},
        pre \in {Undef, Str("agent"), Num(1)},
        ex \in {Undef, Null, Sci(15, -1), NaNv, Num(30), Num(0), Num(-5),
                CStr(<<"4", "0">>)},
        md \in {Undef, Obj([purpose |-> Str("signup")]), Str("m")} }
    \cup
    { Obj([type |-> Str("temporary"), prefix |-> Undef, domain |-> d,
           expirationMinutes |-> Undef, metadata |-> Undef]) :
        d \in {Str("mayl.ng"), Num(2)} }

UpdateInputs ==
    {Undef, Null, Str("disabled"),
     Obj([metadata |-> Undef, status |-> Str("disabled")]),
     Obj([metadata |-> Obj([purpose |-> Str("signup")]), status |-> Undef])}

ExtendInputs ==
    {Undef, Null, NaNv, Num(0), Num(-5), Num(30),
     CStr(<<"4", "0">>), CStr(<<"-", "4">>), CStr(<<"4", "s">>), CStr(<<>>),
     CStr(<<"-", "1", "e", "3">>), CStr(<<"1", "e", "-", "4", "0", "0">>),
     Sci(15, -1), Sci(-5, -1), Inf(FALSE), Buf(<<11>>), Buf(<<51>>),
     Arr(<<Num(-5)>>), Arr(<<Num(5)>>), Obj([minutes |-> Num(30)])}

PaginationInputs ==
    {Undef,
     Obj([page |-> Undef, limit |-> Undef]),
     Obj([page |-> Num(2), limit |-> Num(10)]),
     Obj([page |-> Num(0), limit |-> Undef])}

AddressListInputs ==
    {Undef} \cup
    { Obj([type |-> ty, status |-> st, pagination |-> pg]) :
        ty \in {Undef, Str("temporary")},
        st \in {Undef, Str(""), Str("active")},
        pg \in PaginationInputs }

EmailListInputs ==
    {Undef} \cup
    { Obj([fromEmailId |-> fr, status |-> st, threadId |-> th,
           since |-> si, until |-> un, pagination |-> pg]) :
        fr \in {Undef, Str("a1")},
        st \in {Undef, Str("sent")},
        th \in {Undef, Str("t1")},
        si \in {Undef, DateV(Num(0)), DateV(NaNv)},
        un \in {Undef, DateV(Num(1))},
        pg \in {Undef, Obj([page |-> Num(2), limit |-> Num(10)])} }

Rcpt(email, name) == Obj([email |-> email, name |-> name])

GoodEmail == CStr(<<"a", "@", "b", ".", "c">>)

BadEmails ==
    { CStr(<<"a", "@", "b">>), CStr(<<"a", "b", ".", "c">>),
      CStr(<<"a", " ", "@", "b", ".", "c">>), CStr(<<"@", "b", ".", "c">>),
      CStr(<<"a", "@", ".", "c">>), CStr(<<"a", "@", "b", ".">>),
      CStr(<<"a", "@", "b", "@", "c", ".", "d">>) }

Att(content) ==
    Obj([filename |-> Str("a.txt"), contentType |-> Str("text/plain"),
         content |-> content, cid |-> Undef])

\* A send request that passes validation.
SendBase ==
    [fromEmailId |-> Str("a1"),
     to |-> Arr(<<Rcpt(GoodEmail, Undef)>>),
     cc |-> Undef, bcc |-> Undef,
     subject |-> CStr(<<"H", "i">>),
     text |-> Str("hello"), html |-> Undef,
     attachments |-> Undef, headers |-> Undef, scheduledAt |-> Undef,
     threadId |-> Undef, metadata |-> Undef]

\* Other values of single fields, as <<field, value>>.
SendVariants ==
    { <<"fromEmailId", v>> : v \in {Undef, Str(""), Num(3)} }
    \cup { <<"to", v>> : v \in
            {Undef, Arr(<<>>), GoodEmail, Arr(<<Null>>),
             Arr(<<Rcpt(GoodEmail, Str("Ann")),
                   Rcpt(CStr(<<"a", ".", "b", "@", "c", ".", "d">>), Undef)>>),
             Arr(<<Rcpt(Undef, Undef)>>),
             Arr(<<Rcpt(GoodEmail, Num(1))>>)} }
    \cup { <<"to", Arr(<<Rcpt(e, Undef)>>)>> : e \in BadEmails }
    \cup { <<"to", Arr(<<Rcpt(GoodEmail, Undef), Rcpt(e, Undef)>>)>> :
            e \in {CStr(<<"a", "@", "b">>)} }
    \cup { <<"cc", v>> : v \in
            {Arr(<<Rcpt(GoodEmail, Undef)>>), Arr(<<Rcpt(CStr(<<"a", "@", "b">>), Undef)>>),
             GoodEmail, Buf(<<65>>), Buf(<<>>)} }
    \cup { <<"bcc", v>> : v \in
            {Arr(<<Rcpt(GoodEmail, Undef)>>),
             Arr(<<Rcpt(GoodEmail, Undef), Rcpt(CStr(<<"a", "b", ".", "c">>), Undef)>>)} }
    \cup { <<"subject", v>> : v \in {Undef, Str(""), CStr(<<" ", " ">>), Str(" \t"), Num(5)} }
    \cup { <<"text", v>> : v \in {Undef, Str(""), Num(1)} }
    \cup { <<"html", v>> : v \in {Str("<p>hello</p>"), Num(1)} }
    \cup { <<"attachments", v>> : v \in
            {Str("a.txt"), Arr(<<Null>>),
             Arr(<<Att(Buf(<<77, 97, 110>>))>>),
             Arr(<<Att(Buf(<<77>>)), Att(CStr(<<"h", "i", " ", "!">>))>>),
             Arr(<<Att(Buf(<<77, 97, 110, 255, 0>>))>>),
             Arr(<<Att(CStr(<<"T", "W", "F", "u">>))>>),
             Arr(<<Att(Undef)>>), Arr(<<Att(Num(5))>>)} }
    \cup { <<"headers", v>> : v \in {Obj([XTag |-> Str("agent")])} }
    \cup { <<"scheduledAt", v>> : v \in
            {DateV(Num(0)), DateV(Num(1)), DateV(NaNv), Str(Iso(1))} }
    \cup { <<"threadId", v>> : v \in {Str("t1"), Num(9)} }
    \cup { <<"metadata", v>> : v \in {Obj([purpose |-> Str("signup")]), Str("m")} }

\* The base request, and the base with one or two fields replaced.
SendInputs ==
    {Undef} \cup
    { Obj([[SendBase EXCEPT ![p[1]] = p[2]] EXCEPT ![q[1]] = q[2]]) :
        p \in SendVariants, q \in SendVariants \cup {<<"headers", Undef>>} }

-----------------------------------------------------------------------------
(* What the server answers with a 2xx status: the body axios parsed.        *)

AddressPayloads ==
    { Obj([id |-> Str("a1"), email |-> Str("agent@mayl.ng"),
           type |-> Str("temporary"), status |-> Str("active"),
           createdAt |-> Str(IsoShort(0)), expiresAt |-> expiry,
           metadata |-> Undef]) :
        expiry \in {Str(IsoShort(30)), Str(""), Num(90000)} }
    \cup
    { Obj([id |-> Str("a2"), email |-> Str("desk@mayl.ng"),
           type |-> Str("persistent"), status |-> Str("active"),
           createdAt |-> Str(IsoShort(0)), expiresAt |-> expiry,
           metadata |-> Undef]) :
        expiry \in {Null, Undef, Num(0), Bool(FALSE), Str(IsoShort(30)),
                    Str("Jan 1 10:00 +01:2025"), Str("soon")} }

EmailPayloads ==
    { Obj([id |-> Str("m1"), fromEmailId |-> Str("a1"), subject |-> Str("Hi"),
           sentAt |-> Str(IsoShort(1)), status |-> Str("sent"),
           threadId |-> Undef, metadata |-> Undef]) }

Page(items) ==
    Obj([items |-> items, page |-> Num(1), limit |-> Num(10), total |-> Num(1),
         totalPages |-> Num(1), hasNext |-> Bool(FALSE), hasPrevious |-> Bool(FALSE)])

StatusPayloads ==
    { Obj([status |-> Str("delivered"), deliveredAt |-> d,
           failureReason |-> Undef, bounceType |-> Undef,
           opens |-> Num(2), clicks |-> Undef,
           lastOpenedAt |-> Undef, lastClickedAt |-> Undef]) :
        d \in {Undef, Str(IsoShort(2))} }

HealthPayloads ==
    { Obj([status |-> Str("ok"), message |-> m,
           apiVersion |-> Str("v1"), accountId |-> Str("acct_1")]) :
        m \in {Undef, Str("All systems operational")} }

AccountPayloads ==
    { Obj([accountId |-> Str("acct_1"), plan |-> Str("pro"),
           emailAddressLimit |-> Num(100), emailAddressUsed |-> Num(3),
           emailsSentThisMonth |-> Num(7), emailLimitPerMonth |-> Num(1000),
           createdAt |-> Str(IsoShort(0)), lastActivity |-> Str(IsoShort(5))]) }

Payloads(o) ==
    CASE o \in {"emailAddresses.create", "emailAddresses.get",
                "emailAddresses.update", "emailAddresses.extend"} -> AddressPayloads
      [] o \in {"emails.send", "emails.get", "emails.resend"} -> EmailPayloads
      [] o = "emailAddresses.list" ->
            {Page(Undef), Page(Arr(<<>>)), Page(Arr(<<Null>>))}
            \cup {Page(Arr(<<a>>)) : a \in AddressPayloads}
      [] o = "emails.list" ->
            {Page(Undef)} \cup {Page(Arr(<<m>>)) : m \in EmailPayloads}
      [] o = "emails.getDeliveryStatus" -> StatusPayloads
      [] o = "healthCheck" -> HealthPayloads
      [] o = "getAccountInfo" -> AccountPayloads
      [] OTHER -> {}

\* The envelope { data, success, error?, requestId? }, or a body of null: a
\* success without error text, a failure with or without one.
Envelopes(o) ==
    {Null} \cup
    { Obj([success |-> Bool(TRUE), error |-> Undef, data |-> d, requestId |-> r]) :
        d \in Payloads(o) \cup {Undef},
        r \in {Undef, Str("srv_1")} }
    \cup
    { Obj([success |-> Bool(FALSE), error |-> e, data |-> d, requestId |-> r]) :
        e \in {Undef, Str(""), Str("address limit reached")},
        d \in Payloads(o) \cup {Undef},
        r \in {Undef, Str("srv_1")} }

-----------------------------------------------------------------------------
(* The transport: a request goes through the request interceptor, which     *)
(* stamps it; a failure goes through the response interceptor, which        *)
(* classifies it; a 2xx response is returned as its body.                   *)

\* this.client.get/post/put/patch/delete(endpoint, data, config): axios
\* merges the instance's defaults into the request's config; a timeout of the
\* request's own config takes the place of the default.
mergeConfig(defaults, plan) ==
    [method |-> plan.method, url |-> plan.endpoint, data |-> plan.body,
     baseURL |-> defaults.baseURL,
     timeout |-> IF Opt(plan.config, "timeout") = Undef THEN defaults.timeout
                 ELSE plan.config.f.timeout,
     headers |-> [Authorization |-> defaults.headers.Authorization,
                  ContentType |-> defaults.headers.ContentType,
                  UserAgent |-> defaults.headers.UserAgent,
                  XRequestID |-> Undef]]

\* The request interceptor: config.headers['X-Request-ID'] = generateRequestId()
requestInterceptor(config, requestId) ==
    [config EXCEPT !.headers.XRequestID = requestId]

\* The request the client issues for a plan, with the clock and the random
\* draw its interceptor reads.
IssueRequest(c, plan, ms, draw) ==
    requestInterceptor(mergeConfig(c.defaults, plan), generateRequestId(ms, draw))

\* The response interceptor's error handler: Promise.reject(handleAPIError(error))
responseInterceptor(err) == Rejected(handleAPIError(err))

\* HTTPClient.get/post/put/patch/delete after the await: `return response.data`
HTTPClient_return(body) == Fulfilled(body)

\* HTTPClient.get(endpoint, config), up to its await.
HTTPClient_get(endpoint, config) == AwaitWith("GET", endpoint.s, Undef, config)

\* HTTPClient.post(endpoint, data, config), up to its await.
HTTPClient_post(endpoint, data, config) == AwaitWith("POST", endpoint.s, data, config)

\* HTTPClient.put(endpoint, data, config), up to its await.
HTTPClient_put(endpoint, data, config) == AwaitWith("PUT", endpoint.s, data, config)

\* HTTPClient.patch(endpoint, data, config), up to its await.
HTTPClient_patch(endpoint, data, config) == AwaitWith("PATCH", endpoint.s, data, config)

\* HTTPClient.delete(endpoint, config), up to its await.
HTTPClient_delete(endpoint, config) == AwaitWith("DELETE", endpoint.s, Undef, config)

\* The methods of the exported HTTPClient, called on the client itself.
TransportOperations ==
    {"HTTPClient.get", "HTTPClient.post", "HTTPClient.put", "HTTPClient.patch",
     "HTTPClient.delete"}

\* Endpoints, bodies and request configs of the calls made on the client itself.
EndpointInputs == {Str("/things"), Str("/things/1")}

DataInputs == {Undef, Obj([name |-> Str("n1")])}

RequestConfigInputs == {Undef, Obj([timeout |-> Num(5000)])}

Operations ==
    {"emailAddresses.create", "emailAddresses.get", "emailAddresses.list",
     "emailAddresses.update", "emailAddresses.delete", "emailAddresses.extend",
     "emails.send", "emails.get", "emails.list", "emails.cancel",
     "emails.resend", "emails.getDeliveryStatus",
     "healthCheck", "getAccountInfo"}

AddressOperations ==
    {"emailAddresses.create", "emailAddresses.get", "emailAddresses.list",
     "emailAddresses.update", "emailAddresses.delete", "emailAddresses.extend"}

EmailOperations ==
    {"emails.send", "emails.get", "emails.list", "emails.cancel",
     "emails.resend", "emails.getDeliveryStatus"}

\* The call of operation o, an async method, up to the point where it
\* returns its promise to the caller: validation throws, which rejects the
\* promise, or one request is handed to axios, which merges it with the
\* defaults of the instance, and the method suspends at its await.
Invoke(o, in, clock, plan) ==
    /\ pc = "idle"
    /\ op' = o
    /\ input' = in
    /\ now' = clock
    /\ IF plan.t = "throw"
       THEN /\ pc' = "settled"
            /\ error' = plan.error
            /\ UNCHANGED <<sent, queued>>
       ELSE /\ pc' = "awaiting"
            /\ error' = None
            /\ sent' = sent + 1
            /\ queued' = mergeConfig(client.defaults, plan)
    /\ UNCHANGED <<request, outcome, thrown, result, client, previous>>

AddressCreate ==
    \E options \in CreateInputs :
        Invoke("emailAddresses.create", <<options>>, None,
               EmailAddressService_create(options))

AddressGet ==
    \E id \in IdInputs :
        Invoke("emailAddresses.get", <<id>>, None, EmailAddressService_get(id))

AddressList ==
    \E options \in AddressListInputs :
        Invoke("emailAddresses.list", <<options>>, None,
               EmailAddressService_list(options))

AddressUpdate ==
    \E id \in IdInputs, updates \in UpdateInputs :
        Invoke("emailAddresses.update", <<id, updates>>, None,
               EmailAddressService_update(id, updates))

AddressDelete ==
    \E id \in IdInputs :
        Invoke("emailAddresses.delete", <<id>>, None, EmailAddressService_delete(id))

AddressExtend ==
    \E id \in IdInputs, additionalMinutes \in ExtendInputs :
        Invoke("emailAddresses.extend", <<id, additionalMinutes>>, None,
               EmailAddressService_extend(id, additionalMinutes))

\* `new Date()` is read by the last check of scheduledAt alone.
EmailSend ==
    \E options \in SendInputs, clock \in Times :
        Invoke("emails.send", <<options>>,
               IF ReadsClock(options) THEN Num(clock) ELSE None,
               EmailService_send(options, clock))

EmailGet ==
    \E id \in IdInputs :
        Invoke("emails.get", <<id>>, None, EmailService_get(id))

EmailList ==
    \E options \in EmailListInputs :
        Invoke("emails.list", <<options>>, None, EmailService_list(options))

EmailCancel ==
    \E id \in IdInputs :
        Invoke("emails.cancel", <<id>>, None, EmailService_cancel(id))

EmailResend ==
    \E id \in IdInputs :
        Invoke("emails.resend", <<id>>, None, EmailService_resend(id))

EmailGetDeliveryStatus ==
    \E id \in IdInputs :
        Invoke("emails.getDeliveryStatus", <<id>>, None,
               EmailService_getDeliveryStatus(id))

HealthCheck == Invoke("healthCheck", <<>>, None, InboxSDK_healthCheck)

GetAccountInfo == Invoke("getAccountInfo", <<>>, None, InboxSDK_getAccountInfo)

\* The methods of the HTTPClient called on the client itself, with an endpoint
\* of the caller's choosing.
HTTPClientGet ==
    \E endpoint \in EndpointInputs, config \in RequestConfigInputs :
        Invoke("HTTPClient.get", <<endpoint, config>>, None,
               HTTPClient_get(endpoint, config))

HTTPClientPost ==
    \E endpoint \in EndpointInputs, data \in DataInputs,
       config \in RequestConfigInputs :
        Invoke("HTTPClient.post", <<endpoint, data, config>>, None,
               HTTPClient_post(endpoint, data, config))

HTTPClientPut ==
    \E endpoint \in EndpointInputs, data \in DataInputs,
       config \in RequestConfigInputs :
        Invoke("HTTPClient.put", <<endpoint, data, config>>, None,
               HTTPClient_put(endpoint, data, config))

HTTPClientPatch ==
    \E endpoint \in EndpointInputs, data \in DataInputs,
       config \in RequestConfigInputs :
        Invoke("HTTPClient.patch", <<endpoint, data, config>>, None,
               HTTPClient_patch(endpoint, data, config))

HTTPClientDelete ==
    \E endpoint \in EndpointInputs, config \in RequestConfigInputs :
        Invoke("HTTPClient.delete", <<endpoint, config>>, None,
               HTTPClient_delete(endpoint, config))

\* The request interceptor, registered without the `synchronous` option, runs
\* in a callback after the call has returned: it reads Date.now() and
\* Math.random() then, and the stamped request goes to the network.
InterceptRequest ==
    /\ pc = "awaiting"
    /\ queued # None
    /\ \E ms \in Times, draw \in MathRandom :
          request' = requestInterceptor(queued, generateRequestId(ms, draw))
    /\ queued' = None
    /\ UNCHANGED <<pc, op, input, sent, outcome, thrown, error, result, now,
                   client, previous>>

\* The continuation of operation o after its await.
Resume(o, settled, instant) ==
    CASE o = "emailAddresses.create" -> EmailAddressService_create_resume(settled)
      [] o = "emailAddresses.get" -> EmailAddressService_get_resume(settled)
      [] o = "emailAddresses.list" -> EmailAddressService_list_resume(settled)
      [] o = "emailAddresses.update" -> EmailAddressService_update_resume(settled)
      [] o = "emailAddresses.delete" -> EmailAddressService_delete_resume(settled)
      [] o = "emailAddresses.extend" -> EmailAddressService_extend_resume(settled)
      [] o = "emails.send" -> EmailService_send_resume(settled)
      [] o = "emails.get" -> EmailService_get_resume(settled)
      [] o = "emails.list" -> EmailService_list_resume(settled)
      [] o = "emails.cancel" -> EmailService_cancel_resume(settled)
      [] o = "emails.resend" -> EmailService_resend_resume(settled)
      [] o = "emails.getDeliveryStatus" -> EmailService_getDeliveryStatus_resume(settled)
      [] o = "healthCheck" -> InboxSDK_healthCheck_resume(settled, instant)
      [] o = "getAccountInfo" -> InboxSDK_getAccountInfo_resume(settled)

\* The promise of this.client.get/post/put/patch/delete as the response
\* interceptor leaves it: rejected with the classified error, or fulfilled
\* with the response.
Intercepted(delivered) ==
    IF delivered.response = Undef \/ delivered.response.status \notin 200..299
    THEN responseInterceptor(delivered)
    ELSE Fulfilled(delivered.response)

\* The response interceptor runs on what axios delivers; the methods awaiting
\* the promise are resumed by later callbacks.
Intercept(delivered) ==
    /\ outcome' = delivered
    /\ thrown' = IF Intercepted(delivered).t = "rejected"
                 THEN Intercepted(delivered).error ELSE None
    /\ pc' = "intercepted"
    /\ UNCHANGED <<op, input, sent, queued, request, error, result, now,
                   client, previous>>

\* How the promise of HTTPClient.get/post/put/patch/delete settles: its
\* continuation returns response.data, and a rejection passes through it.
HTTPClient_resume(settled) ==
    IF settled.t = "rejected" THEN settled ELSE HTTPClient_return(settled.body.data)

\* Statuses and retry-after headers the server of the call model answers with;
\* the classification alone is explored over all of them (SpecClassify).
CallStatuses == {304, 400, 401, 403, 404, 429, 500, 501}

CallRetryAfter == {Undef, CStr(<<"4", "2">>), CStr(<<"0">>)}

\* The error bodies the server of the call model answers with.
CallErrorBodies ==
    {Null, Obj([error |-> Str("quota exceeded"), requestId |-> Str("srv_1")])}

\* The request names a server: its base URL is an absolute http(s) URL, so
\* that it goes to the network.  Base URLs with another scheme are not among
\* the inputs.
Dispatchable(req) ==
    /\ req # None
    /\ req.baseURL.t = "string"
    /\ \E scheme \in {"http://", "https://"} :
          /\ Len(req.baseURL.s) > Len(scheme)
          /\ Take(req.baseURL.s, Len(scheme)) = scheme

\* NoResponse with a retry: a request that timed out is issued once more
\* instead of rejecting.
NoResponseRetry ==
    /\ pc = "awaiting"
    /\ Dispatchable(request)
    /\ \E f \in NoResponseFailures :
         LET err == AxiosNoResponse(request, f)
         IN  IF responseInterceptor(err).error.kind = "TimeoutError" /\ sent < 2
             THEN /\ sent' = sent + 1
                  /\ outcome' = err
                  /\ UNCHANGED <<pc, op, input, queued, request, thrown,
                                 error, result, now, client, previous>>
             ELSE Intercept(err)

\* No response arrives, a timeout or a connection failure: the interceptor's
\* error handler runs.
NoResponse ==
    /\ pc = "awaiting"
    /\ Dispatchable(request)
    /\ \E f \in NoResponseFailures : Intercept(AxiosNoResponse(request, f))

\* The server answers with a status outside 2xx: the interceptor's error
\* handler runs.
BadStatus ==
    /\ pc = "awaiting"
    /\ Dispatchable(request)
    /\ \E status \in CallStatuses, data \in CallErrorBodies :
         \E retryAfter \in IF status = 429 THEN CallRetryAfter ELSE {Undef} :
            Intercept(AxiosBadStatus(request, status, data, retryAfter))

\* The request names no server: axios rejects it without anything going to
\* the network, and the interceptor's error handler runs on a rejection that
\* has no config.  The client of the quick start names its server; a client
\* whose base URL was replaced may not.
InvalidUrl ==
    /\ pc = "awaiting"
    /\ request # None
    /\ ~Dispatchable(request)
    /\ Intercept(AxiosInvalidUrl(request))

\* The server answers 2xx with a body: the interceptor passes the response on.
Success ==
    /\ pc = "awaiting"
    /\ Dispatchable(request)
    /\ \E body \in Envelopes(op) :
         Intercept([response |-> [status |-> 200, data |-> body]])

\* The continuation of HTTPClient.get/post/put/patch/delete after its await.
\* A call made on the client itself has settled here; a service or facade
\* method awaiting it is resumed by a later callback.
HTTPClientResume ==
    /\ pc = "intercepted"
    /\ IF op \in TransportOperations
       THEN /\ pc' = "settled"
            /\ error' = thrown
            /\ result' = IF thrown = None
                         THEN HTTPClient_resume(Intercepted(outcome)).body ELSE None
       ELSE /\ pc' = "unwrapped"
            /\ UNCHANGED <<error, result>>
    /\ UNCHANGED <<op, input, sent, queued, request, outcome, thrown, now,
                   client, previous>>

\* The method ends as r says, a return or a throw: its promise settles.
Complete(r) ==
    /\ IF r.t = "throw"
       THEN error' = r.error /\ result' = None
       ELSE result' = r.value /\ error' = None
    /\ pc' = "settled"

\* The continuation of the service or facade method after its await, run to
\* the method's end; healthCheck reads `new Date()` for its timestamp here.
ServiceResume ==
    /\ pc = "unwrapped"
    /\ \E clock \in IF op = "healthCheck" THEN Times ELSE {0} :
         /\ Complete(Resume(op, HTTPClient_resume(Intercepted(outcome)), clock))
         /\ now' = IF op = "healthCheck" THEN Num(clock) ELSE now
    /\ UNCHANGED <<op, input, sent, queued, request, outcome, thrown, client,
                   previous>>

\* The caller's await is resumed: it has the result or the error.
CallerResume ==
    /\ pc = "settled"
    /\ pc' = IF error = None THEN "returned" ELSE "raised"
    /\ UNCHANGED <<op, input, sent, queued, request, outcome, thrown, error,
                   result, now, client, previous>>

\* The caller has the result or the error and the client is followed no
\* further: the next call starts as the first one did.
Finish ==
    /\ pc \in {"returned", "raised"}
    /\ pc' = "idle"
    /\ op' = "none"
    /\ input' = <<>>
    /\ sent' = 0
    /\ queued' = None
    /\ request' = None
    /\ outcome' = None
    /\ thrown' = None
    /\ error' = None
    /\ result' = None
    /\ now' = None
    /\ previous' = None
    /\ UNCHANGED client

\* The client of the quick start, constructed, with no call made yet.
Init ==
    /\ pc = "idle"
    /\ op = "none"
    /\ input = <<>>
    /\ sent = 0
    /\ queued = None
    /\ request = None
    /\ outcome = None
    /\ thrown = None
    /\ error = None
    /\ result = None
    /\ now = None
    /\ client = DefaultClient
    /\ previous = None

Next ==
    \/ AddressCreate \/ AddressGet \/ AddressList
    \/ AddressUpdate \/ AddressDelete \/ AddressExtend
    \/ EmailSend \/ EmailGet \/ EmailList
    \/ EmailCancel \/ EmailResend \/ EmailGetDeliveryStatus
    \/ HealthCheck \/ GetAccountInfo
    \/ HTTPClientGet \/ HTTPClientPost \/ HTTPClientPut
    \/ HTTPClientPatch \/ HTTPClientDelete
    \/ InterceptRequest
    \/ NoResponse \/ BadStatus \/ Success
    \/ HTTPClientResume \/ ServiceResume \/ CallerResume
    \/ Finish

Spec == Init /\ [][Next]_vars

-----------------------------------------------------------------------------
(* The life of one client: it is reconfigured between calls, and each call  *)
(* is followed by the next, made on the same client.                        *)

\* A synchronous method that reconfigures the transport adapter.
Reconfigure(o, in, r) ==
    /\ pc = "idle"
    /\ op' = o
    /\ input' = in
    /\ client' = r.client
    /\ IF r.t = "throw"
       THEN pc' = "raised" /\ error' = r.error /\ result' = None
       ELSE pc' = "returned" /\ error' = None /\ result' = Undef
    /\ UNCHANGED <<sent, queued, request, outcome, thrown, now, previous>>

UpdateApiKey ==
    \E apiKey \in KeyInputs :
        Reconfigure("updateApiKey", <<apiKey>>, InboxSDK_updateApiKey(client, apiKey))

UpdateBaseUrl ==
    \E baseUrl \in UrlInputs :
        Reconfigure("updateBaseUrl", <<baseUrl>>,
                    InboxSDK_updateBaseUrl(client, baseUrl))

\* HTTPClient.updateApiKey and HTTPClient.updateBaseUrl called on the client
\* itself: they check nothing.
HTTPClientUpdateApiKey ==
    \E apiKey \in KeyInputs :
        Reconfigure("HTTPClient.updateApiKey", <<apiKey>>,
                    Reconfigured(Return(Undef), HTTPClient_updateApiKey(client, apiKey)))

HTTPClientUpdateBaseUrl ==
    \E baseUrl \in UrlInputs :
        Reconfigure("HTTPClient.updateBaseUrl", <<baseUrl>>,
                    Reconfigured(Return(Undef),
                                 HTTPClient_updateBaseUrl(client, baseUrl)))

\* The caller has the result or the error and goes on with the same client.
NextCall ==
    /\ pc \in {"returned", "raised"}
    /\ client # None
    /\ pc' = "idle"
    /\ op' = "none"
    /\ input' = <<>>
    /\ sent' = 0
    /\ queued' = None
    /\ request' = None
    /\ outcome' = None
    /\ thrown' = None
    /\ error' = None
    /\ result' = None
    /\ now' = None
    /\ previous' = IF request = None THEN previous ELSE request.headers.XRequestID
    /\ UNCHANGED client

NextClient ==
    \/ UpdateApiKey \/ UpdateBaseUrl
    \/ HTTPClientUpdateApiKey \/ HTTPClientUpdateBaseUrl
    \/ HealthCheck \/ GetAccountInfo
    \/ AddressDelete \/ EmailCancel
    \/ HTTPClientPut
    \/ InterceptRequest
    \/ NoResponse \/ BadStatus \/ Success \/ InvalidUrl
    \/ HTTPClientResume \/ ServiceResume \/ CallerResume
    \/ NextCall

SpecClient == Init /\ [][NextClient]_vars

-----------------------------------------------------------------------------
(* Construction on its own: new InboxSDK(config) and new HTTPClient(config) *)
(* over the configurations.                                                 *)

InitConstruct ==
    /\ pc = "unconstructed"
    /\ op = "none"
    /\ input = <<>>
    /\ sent = 0
    /\ queued = None
    /\ request = None
    /\ outcome = None
    /\ thrown = None
    /\ error = None
    /\ result = None
    /\ now = None
    /\ client = None
    /\ previous = None

\* new InboxSDK(config)
Construct ==
    /\ pc = "unconstructed"
    /\ \E config \in ConfigInputs :
         LET r == InboxSDK_constructor(config) IN
         /\ op' = "new InboxSDK"
         /\ input' = <<config>>
         /\ IF r.t = "throw"
            THEN pc' = "raised" /\ error' = r.error /\ client' = None
            ELSE pc' = "returned" /\ error' = None /\ client' = r.value
    /\ UNCHANGED <<sent, queued, request, outcome, thrown, result, now,
                   previous>>

\* new HTTPClient(config): the exported transport adapter constructed by the
\* caller, with no validation in front of it.
HTTPClientConstruct ==
    /\ pc = "unconstructed"
    /\ \E config \in ConfigInputs :
         /\ op' = "new HTTPClient"
         /\ input' = <<config>>
         /\ client' = HTTPClient_constructor(config)
    /\ pc' = "returned"
    /\ error' = None
    /\ UNCHANGED <<sent, queued, request, outcome, thrown, result, now,
                   previous>>

NextConstruct == Construct \/ HTTPClientConstruct

SpecConstruct == InitConstruct /\ [][NextConstruct]_vars

-----------------------------------------------------------------------------
(* The classification of transport failures on its own: handleAPIError is a *)
(* function of the AxiosError, explored here over every status 300..599,    *)
(* every failure without response and every retry-after header.             *)

AllErrorStatuses == 300..599

AxiosErrors ==
    LET configs == {IssueRequest(DefaultClient, Await("GET", "/health", Undef),
                                 ms, draw) :
                        ms \in Times, draw \in MathRandom}
    IN  {AxiosNoResponse(c, f) : c \in configs, f \in NoResponseFailures}
        \cup {AxiosBadStatus(c, st, d, Undef) :
                c \in configs, st \in AllErrorStatuses, d \in ErrorBodies}
        \cup {AxiosBadStatus(c, 429, d, h) :
                c \in configs, d \in ErrorBodies, h \in RetryAfterHeaders}

InitClassify ==
    /\ pc = "classifying"
    /\ op = "none"
    /\ input = <<>>
    /\ sent = 1
    /\ queued = None
    /\ outcome \in AxiosErrors
    /\ request = outcome.config
    /\ thrown = None
    /\ error = None
    /\ result = None
    /\ now = None
    /\ client = DefaultClient
    /\ previous = None

Classify ==
    /\ pc = "classifying"
    /\ pc' = "classified"
    /\ thrown' = responseInterceptor(outcome).error
    /\ UNCHANGED <<op, input, sent, queued, request, outcome, error, result,
                   now, client, previous>>

NextClassify == Classify

SpecClassify == InitClassify /\ [][NextClassify]_vars

-----------------------------------------------------------------------------
(* Properties.                                                              *)

\* The synchronous half of the current call, recomputed from its arguments.
Plan ==
    CASE op = "emailAddresses.create" -> EmailAddressService_create(input[1])
      [] op = "emailAddresses.get" -> EmailAddressService_get(input[1])
      [] op = "emailAddresses.list" -> EmailAddressService_list(input[1])
      [] op = "emailAddresses.update" -> EmailAddressService_update(input[1], input[2])
      [] op = "emailAddresses.delete" -> EmailAddressService_delete(input[1])
      [] op = "emailAddresses.extend" -> EmailAddressService_extend(input[1], input[2])
      [] op = "emails.send" ->
            EmailService_send(input[1], IF now = None THEN 0 ELSE now.n)
      [] op = "emails.get" -> EmailService_get(input[1])
      [] op = "emails.list" -> EmailService_list(input[1])
      [] op = "emails.cancel" -> EmailService_cancel(input[1])
      [] op = "emails.resend" -> EmailService_resend(input[1])
      [] op = "emails.getDeliveryStatus" -> EmailService_getDeliveryStatus(input[1])
      [] op = "healthCheck" -> InboxSDK_healthCheck
      [] op = "getAccountInfo" -> InboxSDK_getAccountInfo
      [] op = "HTTPClient.get" -> HTTPClient_get(input[1], input[2])
      [] op = "HTTPClient.post" -> HTTPClient_post(input[1], input[2], input[3])
      [] op = "HTTPClient.put" -> HTTPClient_put(input[1], input[2], input[3])
      [] op = "HTTPClient.patch" -> HTTPClient_patch(input[1], input[2], input[3])
      [] op = "HTTPClient.delete" -> HTTPClient_delete(input[1], input[2])

\* The operations of the two services that validate their arguments.
ValidatedOperations ==
    {"emailAddresses.create", "emailAddresses.get", "emailAddresses.update",
     "emailAddresses.delete", "emailAddresses.extend",
     "emails.send", "emails.get", "emails.cancel", "emails.resend",
     "emails.getDeliveryStatus"}

\* The operations whose first argument is an id.
IdOperations == ValidatedOperations \ {"emailAddresses.create", "emails.send"}

\* A call has been made: it is in flight, settling, or over.
Called ==
    pc \in {"awaiting", "intercepted", "unwrapped", "settled", "returned", "raised"}

\* The caller has the result or the error of the call.
Over == pc \in {"returned", "raised"}

\* The call has failed: its promise is rejected with the error, which the
\* caller has or gets when its await is resumed.
Failed == pc \in {"settled", "raised"} /\ error # None

\* The server answered 2xx with an envelope.
Answered == outcome # None /\ outcome.response # Undef /\ outcome.response.status = 200

\* The call is rejected by its validation: the operation throws before it
\* makes a request, and in send, which also converts scheduledAt before its
\* request, it is validateSendOptions that throws.
FailsValidation ==
    /\ Plan.t = "throw"
    /\ op = "emails.send" =>
          validateSendOptions(input[1], IF now = None THEN 0 ELSE now.n).t = "throw"

\* C1 (as claimed): a call of a validating service operation that fails the
\* operation's validation has raised a ValidationError and has issued no
\* network request.
C1_ValidationBeforeNetwork ==
    (Called /\ op \in ValidatedOperations /\ FailsValidation) =>
        /\ Failed
        /\ error.kind = "ValidationError"
        /\ sent = 0
        /\ queued = None
        /\ request = None

\* C2: a call issues at most one network request, and once the transport has
\* rejected with a Timeout, Network or Server error the call is over with that
\* one request: nothing is re-issued.
C2_AtMostOneRequest ==
    /\ sent <= 1
    /\ (Called /\ outcome # None) => (sent = 1 /\ pc # "awaiting")
    /\ (Called /\ thrown # None
          /\ thrown.kind \in {"TimeoutError", "NetworkError", "ServerError"}) =>
            /\ pc # "awaiting"
            /\ sent = 1
            /\ (Over /\ op # "healthCheck") => (pc = "raised" /\ error = thrown)

C2_Witness ==
    /\ pc = "raised"
    /\ op = "emails.send"
    /\ thrown # None
    /\ thrown.kind = "TimeoutError"
    /\ error = thrown
    /\ sent = 1

\* C3 (as claimed): every call of an operation other than healthCheck that
\* raises, raises an error of the closed taxonomy.
C3_ClosedTaxonomy ==
    (pc = "raised" /\ op # "healthCheck") => error.kind \in Taxonomy

\* C4: an error the transport adapter rejected with during a service operation
\* is the error the caller gets, unchanged; and a service raises its domain
\* wrapper only for a 2xx envelope with success=false, never for an error of
\* the transport.
C4_TransportErrorsPropagate ==
    (Over /\ op \in AddressOperations \cup EmailOperations) =>
        /\ thrown # None => (pc = "raised" /\ error = thrown)
        /\ (pc = "raised" /\ error.kind \in {"EmailAddressError", "EmailSendError"}) =>
              /\ thrown = None
              /\ Answered
              /\ outcome.response.data # Null
              /\ outcome.response.data.f.success = Bool(FALSE)

C4_Witness ==
    /\ pc = "raised"
    /\ op = "emails.get"
    /\ thrown # None
    /\ thrown.kind = "RateLimitError"
    /\ thrown.retryAfter = Num(42)
    /\ error = thrown

\* The reference table of C5: status to error class.
ReferenceKind(status) ==
    CASE status = 401 -> "AuthenticationError"
      [] status = 403 -> "AuthorizationError"
      [] status = 404 -> "NotFoundError"
      [] status = 400 -> "ValidationError"
      [] status = 429 -> "RateLimitError"
      [] OTHER -> "ServerError"

\* C5: an error response is classified by its status as the reference table
\* says, and a Server error for a status 500..599 carries that status.
C5_StatusClassification ==
    (pc = "classified" /\ outcome.response # Undef) =>
        LET status == outcome.response.status IN
        /\ thrown.kind = ReferenceKind(status)
        /\ thrown.kind \in Taxonomy
        /\ (status \in 500..599 => thrown.statusCode = Num(status))

C5_Witness ==
    /\ pc = "classified"
    /\ outcome.response # Undef
    /\ outcome.response.status = 501
    /\ thrown.kind = "ServerError"
    /\ thrown.statusCode = Num(501)

\* What ended the request in a failure without response.
TimedOut == {"configured-timeout", "connect-timeout"}

\* The timeout indicator: the code axios gives its timeouts, or the word in
\* the message.
TimeoutIndicator(err) == err.code = "ECONNABORTED" \/ IncludesTimeout(err.message)

\* C6 (as claimed): without a response the error is Timeout exactly when the
\* failure carries a timeout indicator and Network otherwise; a request that
\* timed out is never a Network error and a connection failure that is not a
\* timeout is never a Timeout error.
C6_TimeoutIffTimedOut ==
    (pc = "classified" /\ outcome.response = Undef) =>
        /\ thrown.kind =
              IF TimeoutIndicator(outcome) THEN "TimeoutError" ELSE "NetworkError"
        /\ outcome.cause \in TimedOut => thrown.kind # "NetworkError"
        /\ outcome.cause \notin TimedOut => thrown.kind # "TimeoutError"

\* C6 (amended): without a response the error is Timeout exactly when the
\* failure carries a timeout indicator and Network otherwise; a request that
\* ran over the client's configured timeout is never a Network error, and a
\* connection failure that is not a timeout and carries no indicator is never
\* a Timeout error.
C6_TimeoutIffIndicator ==
    (pc = "classified" /\ outcome.response = Undef) =>
        /\ thrown.kind =
              IF TimeoutIndicator(outcome) THEN "TimeoutError" ELSE "NetworkError"
        /\ outcome.cause = "configured-timeout" => thrown.kind = "TimeoutError"
        /\ (outcome.cause \notin TimedOut /\ ~TimeoutIndicator(outcome)) =>
              thrown.kind = "NetworkError"

C6_Witness ==
    /\ pc = "classified"
    /\ outcome.response = Undef
    /\ outcome.cause = "connection-aborted"
    /\ outcome.code = "ECONNABORTED"
    /\ thrown.kind = "TimeoutError"

\* The number a run of decimal digits denotes.
RECURSIVE Denotes(_)
Denotes(cs) ==
    IF cs = <<>> THEN 0
    ELSE 10 * Denotes(SubSeq(cs, 1, Len(cs) - 1)) + DigitVal(cs[Len(cs)])

\* C7: a 429 whose retry-after header is the numeral of n seconds becomes a
\* RateLimitError with retryAfter = n, zero included; without the header the
\* error has no retryAfter.
C7_RetryAfterSeconds ==
    (pc = "classified" /\ outcome.response # Undef
        /\ outcome.response.status = 429) =>
        LET header == outcome.response.headers.retryAfter IN
        /\ thrown.kind = "RateLimitError"
        /\ header = Undef => thrown.retryAfter = Undef
        /\ (header # Undef /\ header.cs # <<>>
              /\ \A i \in 1..Len(header.cs) : IsDigit(header.cs[i])) =>
                 thrown.retryAfter = Num(Denotes(header.cs))

C7_Witness ==
    /\ pc = "classified"
    /\ outcome.response # Undef
    /\ outcome.response.status = 429
    /\ outcome.response.headers.retryAfter = CStr(<<"0">>)
    /\ thrown.kind = "RateLimitError"
    /\ thrown.retryAfter = Num(0)

\* The fallback message of each service operation.
FallbackMessage(o) ==
    CASE o = "emailAddresses.create" -> "Failed to create email address"
      [] o = "emailAddresses.get" -> "Failed to get email address"
      [] o = "emailAddresses.list" -> "Failed to list email addresses"
      [] o = "emailAddresses.update" -> "Failed to update email address"
      [] o = "emailAddresses.delete" -> "Failed to delete email address"
      [] o = "emailAddresses.extend" -> "Failed to extend email address"
      [] o = "emails.send" -> "Failed to send email"
      [] o = "emails.get" -> "Failed to get email"
      [] o = "emails.list" -> "Failed to list emails"
      [] o = "emails.cancel" -> "Failed to cancel email"
      [] o = "emails.resend" -> "Failed to resend email"
      [] o = "emails.getDeliveryStatus" -> "Failed to get delivery status"

\* The 2xx envelope of the current call says success=false.
Unsuccessful ==
    /\ Answered
    /\ outcome.response.data # Null
    /\ outcome.response.data.f.success = Bool(FALSE)

\* C8: a service operation that got a 2xx envelope with success=false raises
\* its service's domain wrapper, with the envelope's error text as message, or
\* the operation's fallback message when the envelope has none, and returns no
\* data.
C8_EnvelopeFailureIsDomainError ==
    (Over /\ op \in AddressOperations \cup EmailOperations /\ Unsuccessful) =>
        LET text == outcome.response.data.f.error IN
        /\ pc = "raised"
        /\ result = None
        /\ error.kind = IF op \in AddressOperations
                        THEN "EmailAddressError" ELSE "EmailSendError"
        /\ error.message = IF text \in {Undef, Str("")}
                           THEN FallbackMessage(op) ELSE text.s

C8_Witness ==
    /\ pc = "raised"
    /\ op = "emailAddresses.delete"
    /\ Unsuccessful
    /\ outcome.response.data.f.error = Undef
    /\ error.kind = "EmailAddressError"
    /\ error.message = "Failed to delete email address"

\* C9 (as claimed): getAccountInfo never returns data of an envelope with
\* success=false; it raises an error with the envelope's message.
C9_AccountInfoChecksSuccess ==
    (Over /\ op = "getAccountInfo" /\ Unsuccessful) =>
        LET text == outcome.response.data.f.error IN
        /\ pc = "raised"
        /\ result = None
        /\ text \notin {Undef, Str("")} => error.message = text.s

\* C10: healthCheck never raises; when the request failed, or the answer
\* could not be read, it returns status unhealthy with the error's message.
C10_HealthCheckNeverRaises ==
    (Called /\ op = "healthCheck") =>
        /\ pc # "raised"
        /\ error = None
        /\ Over =>
              /\ outcome # None
              /\ result.f.status \in {Str("healthy"), Str("unhealthy")}
              /\ result.f.message.t = "string"
              /\ result.f.timestamp = DateV(now)
        /\ (Over /\ thrown # None) =>
              /\ result.f.status = Str("unhealthy")
              /\ result.f.message = Str(thrown.message)
        /\ (Over /\ Answered /\ (outcome.response.data = Null
                                    \/ Nullish(outcome.response.data.f.data))) =>
              result.f.status = Str("unhealthy")

C10_Witness ==
    /\ pc = "returned"
    /\ op = "healthCheck"
    /\ thrown # None
    /\ thrown.kind = "NetworkError"
    /\ result.f.status = Str("unhealthy")
    /\ result.f.message = Str("Network error: getaddrinfo ENOTFOUND api.mayl.ng")

\* C11: every request carries Authorization: Bearer <key> with the client's
\* configured API key, and once updateApiKey(k) has returned the configured
\* key, and so the header of every later request, is k.
C11_BearerOnEveryRequest ==
    /\ \A req \in {queued, request} \ {None} :
          req.headers.Authorization =
              Str("Bearer " \o TemplateText(client.config.apiKey))
    /\ (op \in {"updateApiKey", "HTTPClient.updateApiKey"} /\ pc = "returned") =>
          /\ client.config.apiKey = input[1]
          /\ client.defaults.headers.Authorization =
                Str("Bearer " \o TemplateText(input[1]))

C11_Witness ==
    /\ pc = "awaiting"
    /\ op = "emails.cancel"
    /\ request # None
    /\ client.config.apiKey = Str("k2")
    /\ request.headers.Authorization = Str("Bearer k2")

\* C12 (as claimed): every request carries a generated X-Request-ID, and it
\* is not the identifier of the request the same client issued before it.
C12_UniqueRequestIds ==
    request # None =>
        /\ request.headers.XRequestID \in RequestIds
        /\ previous # None => request.headers.XRequestID # previous

\* C13: updateApiKey and updateBaseUrl called with anything but a non-empty
\* string raise a ValidationError and leave the transport adapter (API key,
\* Authorization header, base URL) as it was.
C13_RejectedUpdateChangesNothing ==
    [][ (pc = "idle" /\ op' \in {"updateApiKey", "updateBaseUrl"}
           /\ ~(input'[1].t = "string" /\ input'[1].s # "")) =>
            /\ pc' = "raised"
            /\ error'.kind = "ValidationError"
            /\ client' = client
            /\ sent' = 0 ]_vars

C13_Witness ==
    /\ pc = "raised"
    /\ op = "updateApiKey"
    /\ input[1] = Num(7)
    /\ error.kind = "ValidationError"
    /\ client.config.apiKey = Str("k2")
    /\ client.defaults.headers.Authorization = Str("Bearer k2")

\* A positive number: a number above zero, the positive infinity included.
PositiveNumber(v) == TypeOf(v) = "number" /\ v # NaNv /\ ~NumberLeqZero(v)

\* The rules of C14: the API key is a non-empty string, the base URL, if
\* given, is a string, the timeout, if given, is a positive number.
MeetsConfigRules(config) ==
    /\ config.t = "object"
    /\ LET apiKey == config.f.apiKey
           baseUrl == config.f.baseUrl
           timeout == config.f.timeout
       IN  /\ apiKey.t = "string" /\ apiKey.s # ""
           /\ baseUrl \notin {Missing, Undef} => baseUrl.t = "string"
           /\ timeout \notin {Missing, Undef} => PositiveNumber(timeout)

\* C14 (as claimed): construction raises a ValidationError, with no
\* transport adapter created, unless the configuration meets the rules, and
\* every configuration that meets them is accepted.
C14_ConfigRules ==
    op = "new InboxSDK" =>
        IF MeetsConfigRules(input[1])
        THEN pc = "returned" /\ client # None
        ELSE pc = "raised" /\ error.kind = "ValidationError" /\ client = None

\* C15: a create call with type persistent and an expirationMinutes that is
\* not absent, whatever its value, raises a ValidationError and issues no
\* request.
C15_PersistentNeverExpires ==
    (Called /\ op = "emailAddresses.create" /\ input[1].t = "object"
        /\ input[1].f.type = Str("persistent")
        /\ input[1].f.expirationMinutes # Undef) =>
        /\ Failed
        /\ error.kind = "ValidationError"
        /\ sent = 0
        /\ queued = None
        /\ request = None

C15_Witness ==
    /\ pc = "raised"
    /\ op = "emailAddresses.create"
    /\ input[1].t = "object"
    /\ input[1].f.type = Str("persistent")
    /\ input[1].f.expirationMinutes = Num(30)
    /\ error.message = "Expiration minutes cannot be set for persistent email addresses"
    /\ sent = 0

\* C16 (as claimed): extend with an additionalMinutes that is not a positive
\* number (zero, negative, absent, not a number) raises a ValidationError and
\* issues no request.
C16_ExtendNeedsPositiveNumber ==
    (Called /\ op = "emailAddresses.extend"
        /\ ~PositiveNumber(input[2])) =>
        /\ Failed
        /\ error.kind = "ValidationError"
        /\ sent = 0

\* The send request with its text set: valid if the request lacks nothing but
\* content.
WithText == Obj([input[1].f EXCEPT !.text = Str("hello")])

\* C17: a send call with neither text nor html, valid otherwise, raises a
\* ValidationError saying that content is required, and the body of every
\* send request that is issued has a text or an html that is a non-empty
\* string.
C17_ContentRequired ==
    (Called /\ op = "emails.send") =>
        /\ (input[1].t = "object"
              /\ input[1].f.text = Undef /\ input[1].f.html = Undef
              /\ validateSendOptions(WithText, IF now = None THEN 0 ELSE now.n).t
                    = "return") =>
                /\ Failed
                /\ error.kind = "ValidationError"
                /\ error.message = "Either text or HTML content is required"
                /\ sent = 0
        /\ request # None =>
              LET text == request.data.f.text
                  html == request.data.f.html
              IN  \/ text.t = "string" /\ text.s # ""
                  \/ html.t = "string" /\ html.s # ""

C17_Witness ==
    /\ pc = "raised"
    /\ op = "emails.send"
    /\ input[1] = Obj([SendBase EXCEPT !.text = Undef])
    /\ error.message = "Either text or HTML content is required"
    /\ sent = 0

\* The recipients of a send request, as <<list, position>>, in the order to,
\* cc, bcc and by position.
Slots(o) ==
    LET of(name) == IF o[name].t = "array"
                    THEN [i \in 1..Len(o[name].a) |-> <<name, i>>]
                    ELSE <<>>
    IN  of("to") \o of("cc") \o of("bcc")

RecipientAt(o, slot) == o[slot[1]].a[slot[2]]

\* The field path of a recipient: the list's name and the index from zero.
Path(slot) == slot[1] \o "[" \o ToString(slot[2] - 1) \o "]"

FailsPattern(r) ==
    r.t = "object" /\ r.f.email.t = "string" /\ ~emailRegexTest(r.f.email)

ValidRecipient(r) ==
    /\ r.t = "object"
    /\ r.f.email.t = "string" /\ emailRegexTest(r.f.email)
    /\ Truthy(r.f.name) => r.f.name.t = "string"

\* The first position of sequence q whose recipient satisfies Bad.
First(o, Bad(_)) ==
    LET q == Slots(o)
        k == CHOOSE k \in 1..Len(q) :
                /\ Bad(RecipientAt(o, q[k]))
                /\ \A j \in 1..(k - 1) : ~Bad(RecipientAt(o, q[j]))
    IN  q[k]

\* The items of a list of recipients that validation can go through; a value
\* that is no list has none.
ListItems(list) ==
    IF list.t \in {"array", "buffer"} THEN ForEachItems(list) ELSE <<>>

\* Nothing but the pattern is broken: fromEmailId is a non-empty string, `to`
\* a non-empty list, and every item of to, cc and bcc is a recipient that is
\* valid or whose email fails the pattern.
OnlyPatternFailures(o) ==
    /\ o.fromEmailId.t = "string" /\ o.fromEmailId.s # ""
    /\ o.to.t = "array" /\ Len(o.to.a) > 0
    /\ \A name \in {"to", "cc", "bcc"} :
          \A i \in 1..Len(ListItems(o[name])) :
              \/ ValidRecipient(ListItems(o[name])[i])
              \/ FailsPattern(ListItems(o[name])[i])

\* C18 (as claimed): a send call in which some recipient's email fails the
\* pattern, and nothing that validation checks before it is broken, raises
\* before any request a ValidationError citing the field path of the first
\* such recipient in the order to, cc, bcc and ascending index.
C18_CitesFailingRecipient ==
    (Called /\ op = "emails.send" /\ input[1].t = "object"
        /\ OnlyPatternFailures(input[1].f)
        /\ \E k \in 1..Len(Slots(input[1].f)) :
              FailsPattern(RecipientAt(input[1].f, Slots(input[1].f)[k]))) =>
        /\ Failed
        /\ sent = 0
        /\ error.kind = "ValidationError"
        /\ error.message =
              Path(First(input[1].f, FailsPattern))
                 \o ".email is not a valid email address"

\* C19 (as claimed): the ValidationError raised for a recipient whose email
\* fails the pattern names the offending field, <list>[<index>].email, in its
\* field attribute.
C19_FieldNamesOffender ==
    (pc = "raised" /\ op = "emails.send" /\ error.kind = "ValidationError"
        /\ input[1].t = "object") =>
        \A k \in 1..Len(Slots(input[1].f)) :
            LET path == Path(Slots(input[1].f)[k]) \o ".email" IN
            error.message = path \o " is not a valid email address" =>
                error.field = Str(path)

\* C20 (as claimed): a send call whose scheduledAt is a date at or before the
\* current instant fails with a ValidationError before any request is sent:
\* with the one saying that the time must be in the future when validation
\* gets to read the clock, with the one of an earlier check when it does not
\* (the date is then at or before every instant the clock can show); and a
\* send request that is issued has no scheduledAt or one strictly after the
\* instant read.
C20_ScheduledStrictlyAfterNow ==
    (Called /\ op = "emails.send" /\ input[1].t = "object") =>
        LET at == input[1].f.scheduledAt IN
        /\ (at.t = "date" /\ now # None /\ DateLeq(at, DateV(now))) =>
              /\ Failed
              /\ sent = 0
              /\ queued = None
              /\ request = None
              /\ error.kind = "ValidationError"
              /\ error.message = "Scheduled time must be in the future"
        /\ (at.t = "date" /\ now = None /\ DateLeq(at, DateV(Num(0)))) =>
              /\ Failed
              /\ sent = 0
              /\ queued = None
              /\ request = None
              /\ error.kind = "ValidationError"
        /\ (queued # None \/ request # None) =>
              \/ at \in {Undef, Null}
              \/ at.t = "date" /\ now # None /\ DateLess(DateV(now), at)

\* The number a base64 character stands for.
B64Value(c) == (CHOOSE i \in 1..64 : B64[i] = c) - 1

\* The text is base64: groups of four characters of the alphabet, the last
\* group padded with one or two "=".
IsBase64Text(v) ==
    /\ v.t = "string"
    /\ "cs" \in DOMAIN v
    /\ LET n == Len(v.cs) IN
       /\ n % 4 = 0
       /\ \A i \in 1..n :
            \/ \E k \in 1..64 : B64[k] = v.cs[i]
            \/ v.cs[i] = "=" /\ i >= n - 1 /\ v.cs[n] = "="

\* The bytes a base64 text stands for.
RECURSIVE Base64Decode(_)
Base64Decode(cs) ==
    IF cs = <<>> THEN <<>>
    ELSE LET v1 == B64Value(cs[1])
             v2 == B64Value(cs[2])
             b1 == v1 * 4 + (v2 \div 16)
         IN  IF cs[3] = "=" THEN <<b1>>
             ELSE LET v3 == B64Value(cs[3])
                      b2 == (v2 % 16) * 16 + (v3 \div 4)
                  IN  IF cs[4] = "=" THEN <<b1, b2>>
                      ELSE <<b1, b2, (v3 % 4) * 64 + B64Value(cs[4])>>
                           \o Base64Decode(SubSeq(cs, 5, Len(cs)))

\* The attachments the caller supplied and the ones in the request body, for
\* a send request that was issued.
Supplied == input[1].f.attachments
Transmitted == request.data.f.attachments

SendIssued == op = "emails.send" /\ request # None

\* C21 (as claimed): in every send request that is issued, the content of
\* each attachment is base64 text, whether it was supplied as bytes or as
\* text, and filename, content type and content-id are those supplied.
C21_ContentIsBase64 ==
    (SendIssued /\ Supplied.t = "array") =>
        /\ Transmitted.t = "array"
        /\ Len(Transmitted.a) = Len(Supplied.a)
        /\ \A i \in 1..Len(Supplied.a) :
              LET given == Supplied.a[i].f
                  out == Transmitted.a[i].f
              IN  /\ IsBase64Text(out.content)
                  /\ out.filename = given.filename
                  /\ out.contentType = given.contentType
                  /\ out.cid = given.cid

\* C21 (amended): in every send request that is issued, content supplied as
\* bytes is transmitted as the base64 text of those bytes, content supplied
\* as text is transmitted as that text, unchanged, and filename, content type
\* and content-id are those supplied.
C21_BytesEncodedTextUnchanged ==
    (SendIssued /\ Supplied.t = "array") =>
        /\ Transmitted.t = "array"
        /\ Len(Transmitted.a) = Len(Supplied.a)
        /\ \A i \in 1..Len(Supplied.a) :
              LET given == Supplied.a[i].f
                  out == Transmitted.a[i].f
              IN  /\ IF given.content.t = "buffer"
                     THEN /\ IsBase64Text(out.content)
                          /\ Base64Decode(out.content.cs) = given.content.bytes
                     ELSE /\ given.content.t = "string"
                          /\ out.content = given.content
                  /\ out.filename = given.filename
                  /\ out.contentType = given.contentType
                  /\ out.cid = given.cid

C21_Witness ==
    /\ SendIssued
    /\ Supplied = Arr(<<Att(Buf(<<77, 97, 110, 255, 0>>))>>)
    /\ Transmitted.a[1].f.content.s = "TWFu/wA="

\* The addresses of a call that returned, each as <<what the server sent, what
\* the caller got>>.
ReturnedAddresses ==
    IF pc # "returned" THEN {}
    ELSE IF op \in {"emailAddresses.create", "emailAddresses.get",
                    "emailAddresses.update", "emailAddresses.extend"}
    THEN {<<outcome.response.data.f.data, result>>}
    ELSE IF op = "emailAddresses.list"
    THEN LET items == outcome.response.data.f.data.f.items.a
         IN  {<<items[i], result.f.items.a[i]>> : i \in 1..Len(items)}
    ELSE {}

\* C22 (as claimed): every address returned by create, get, list, update or
\* extend with type persistent has expiresAt null, and a null expiry sent by
\* the server is returned as null.
C22_PersistentHasNoExpiry ==
    \A pair \in ReturnedAddresses :
        /\ pair[2].f.type = Str("persistent") => pair[2].f.expiresAt = Null
        /\ pair[1].f.expiresAt = Null => pair[2].f.expiresAt = Null

\* The values of expiresAt that JavaScript takes for false: the server sent
\* no expiry, or null, an empty text, zero or false in its place.
NoExpiry == {Undef, Null, Str(""), Num(0), Bool(FALSE)}

\* The expiries the server of the model sends, each with the date it
\* denotes: a text that is no date denotes the invalid date, a number the
\* instant that many milliseconds after the epoch.
ExpiryDates ==
    { <<Str(IsoShort(30)), DateV(Num(30))>>,
      <<Str("Jan 1 10:00 +01:2025"), DateV(Num(540))>>,
      <<Str("soon"), DateV(NaNv)>>,
      <<Num(90000), DateAt(Num(EpochMinute + 1), 30000)>> }

\* C22 (amended): an address is returned by create, get, list, update and
\* extend with the type the server sent, and with expiresAt null exactly when
\* the expiresAt the server sent is one JavaScript takes for false (nothing,
\* null, an empty text, zero, false); a null expiry is so preserved as null.
\* Any other expiresAt is returned as the date `new Date` makes of it, for a
\* persistent address as for a temporary one.
C22_NullExpiryPreserved ==
    \A pair \in ReturnedAddresses :
        LET wire == pair[1].f.expiresAt
            got == pair[2].f.expiresAt
        IN  /\ pair[2].f.type = pair[1].f.type
            /\ got = Null <=> wire \in NoExpiry
            /\ wire \notin NoExpiry => \E e \in ExpiryDates : wire = e[1] /\ got = e[2]

C22_Witness ==
    /\ pc = "returned"
    /\ op = "emailAddresses.list"
    /\ \E pair \in ReturnedAddresses :
          /\ pair[1].f.type = Str("persistent")
          /\ pair[1].f.expiresAt = Bool(FALSE)
          /\ pair[2].f.type = Str("persistent")
          /\ pair[2].f.expiresAt = Null

\* The requestId of the body the server answered with, if it has one.
ServerRequestId ==
    IF outcome = None \/ outcome.response = Undef THEN Undef
    ELSE LET body == outcome.response.data IN
         IF body.t = "object" /\ "requestId" \in DOMAIN body.f
         THEN body.f.requestId ELSE Undef

\* C24 (as claimed): when the server's answer carries a requestId and the
\* operation fails, the error raised carries that requestId.
C24_ServerRequestIdOnError ==
    (pc = "raised" /\ ServerRequestId # Undef) => error.requestId = ServerRequestId

SendFields ==
    << "fromEmailId", "to", "cc", "bcc", "subject", "content", "attachments",
       "scheduledAt", "threadId", "metadata" >>

ValidAttachment(a) ==
    /\ a.t = "object"
    /\ a.f.filename.t = "string" /\ a.f.filename.s # ""
    /\ a.f.contentType.t = "string" /\ a.f.contentType.s # ""
    /\ Truthy(a.f.content)
    /\ a.f.content.t \in {"string", "buffer"}
    /\ Truthy(a.f.cid) => a.f.cid.t = "string"

\* The rules of send, field by field.  A list of recipients breaks its rule
\* if it cannot be gone through or one of its items is no valid recipient.
RecipientsInvalid(list) ==
    \/ list.t \notin {"array", "buffer"}
    \/ \E i \in 1..Len(ForEachItems(list)) : ~ValidRecipient(ForEachItems(list)[i])

FieldInvalid(o, field, instant) ==
    CASE field = "fromEmailId" -> ~(o.fromEmailId.t = "string" /\ o.fromEmailId.s # "")
      [] field = "to" ->
            ~(o.to.t = "array" /\ Len(o.to.a) > 0) \/ RecipientsInvalid(o.to)
      [] field = "cc" -> Truthy(o.cc) /\ RecipientsInvalid(o.cc)
      [] field = "bcc" -> Truthy(o.bcc) /\ RecipientsInvalid(o.bcc)
      [] field = "subject" ->
            ~(/\ o.subject.t = "string"
              /\ o.subject.s # ""
              /\ \E i \in 1..Len(o.subject.s) :
                    SubSeq(o.subject.s, i, i) \notin WhiteSpace)
      [] field = "content" ->
            \/ ~Truthy(o.text) /\ ~Truthy(o.html)
            \/ Truthy(o.text) /\ o.text.t # "string"
            \/ Truthy(o.html) /\ o.html.t # "string"
      [] field = "attachments" ->
            Truthy(o.attachments)
            /\ \/ o.attachments.t # "array"
               \/ \E i \in 1..Len(o.attachments.a) : ~ValidAttachment(o.attachments.a[i])
      [] field = "scheduledAt" ->
            Truthy(o.scheduledAt)
            /\ \/ o.scheduledAt.t # "date"
               \/ DateLeq(o.scheduledAt, DateV(Num(instant)))
      [] field = "threadId" -> Truthy(o.threadId) /\ o.threadId.t # "string"
      [] field = "metadata" ->
            Truthy(o.metadata) /\ o.metadata.t \notin {"object", "array"}

\* The messages of the errors raised for a field.
ItemMessages(name, n, defects) ==
    { name \o "[" \o ToString(i) \o "]" \o d : i \in 0..n, d \in defects }

FieldMessages(field) ==
    CASE field = "fromEmailId" -> {"From email ID is required"}
      [] field = "to" ->
            {"At least one recipient is required"}
            \cup ItemMessages("to", 2, {" must be an object", ".email is required",
                    ".email is not a valid email address", ".name must be a string"})
      [] field \in {"cc", "bcc"} ->
            ItemMessages(field, 2, {" must be an object", ".email is required",
                    ".email is not a valid email address", ".name must be a string"})
      [] field = "subject" -> {"Subject is required"}
      [] field = "content" ->
            {"Either text or HTML content is required",
             "Text content must be a string", "HTML content must be a string"}
      [] field = "attachments" ->
            {"Attachments must be an array"}
            \cup ItemMessages("attachments", 2,
                    {" must be an object", ".filename is required",
                     ".contentType is required", ".content is required",
                     ".content must be a string or Buffer", ".cid must be a string"})
      [] field = "scheduledAt" ->
            {"Scheduled at must be a Date object", "Scheduled time must be in the future"}
      [] field = "threadId" -> {"Thread ID must be a string"}
      [] field = "metadata" -> {"Metadata must be an object"}

InvalidFields(o, instant) ==
    {k \in 1..Len(SendFields) : FieldInvalid(o, SendFields[k], instant)}

\* The earliest invalid field in the order of SendFields.
EarliestInvalid(o, instant) ==
    SendFields[CHOOSE k \in InvalidFields(o, instant) :
                  \A j \in InvalidFields(o, instant) : k <= j]

\* The instant validation read the clock at, where it read it.
Instant == IF now = None THEN 0 ELSE now.n

\* C25 (as claimed): a send call in which one or several fields break their
\* rules raises, before any request, the ValidationError for the earliest
\* invalid field in the order fromEmailId, to, cc, bcc, subject, text/html,
\* attachments, scheduledAt, threadId, metadata.
C25_EarliestInvalidFieldWins ==
    (Called /\ op = "emails.send" /\ input[1].t = "object"
        /\ InvalidFields(input[1].f, Instant) # {}) =>
        LET first == EarliestInvalid(input[1].f, Instant) IN
        /\ Failed
        /\ sent = 0
        /\ error.kind = "ValidationError"
        /\ error.message \in FieldMessages(first)

\* The filters and pagination values of a list call, as <<name, value>>, in
\* the order of the query string.
ListValues(o, options) ==
    LET pagination == Opt(options, "pagination")
        paging == << <<"page", Opt(pagination, "page")>>,
                     <<"limit", Opt(pagination, "limit")>> >>
    IN  IF o = "emailAddresses.list"
        THEN << <<"type", Opt(options, "type")>>,
                <<"status", Opt(options, "status")>> >> \o paging
        ELSE << <<"fromEmailId", Opt(options, "fromEmailId")>>,
                <<"status", Opt(options, "status")>>,
                <<"threadId", Opt(options, "threadId")>>,
                <<"since", Opt(options, "since")>>,
                <<"until", Opt(options, "until")>> >> \o paging

\* The text of a value in the query string.
ValueText(v) ==
    CASE v.t = "string" -> FormEncode(v.s)
      [] v.t = "number" -> ToString(v.n)
      [] v.t = "date" -> FormEncode(IsoOfDate(v))

\* name=value pairs joined by "&".
RECURSIVE JoinParams(_)
JoinParams(pairs) ==
    IF pairs = <<>> THEN ""
    ELSE IF Len(pairs) = 1 THEN pairs[1][1] \o "=" \o ValueText(pairs[1][2])
    ELSE pairs[1][1] \o "=" \o ValueText(pairs[1][2]) \o "&" \o JoinParams(Tail(pairs))

ListPath(o) == IF o = "emailAddresses.list" THEN "/email-addresses" ELSE "/emails"

\* The URL with exactly the given parameters.
ListUrl(o, pairs) ==
    IF pairs = <<>> THEN ListPath(o) ELSE ListPath(o) \o "?" \o JoinParams(pairs)

IsProvided(pair) == pair[2] \notin {Undef, Null}

ListIssued == op \in {"emailAddresses.list", "emails.list"} /\ request # None

\* C26 (as claimed): the query string of a list request has a parameter
\* exactly for the values the caller provided: every value given is sent,
\* every value not given is left out.
C26_ParameterIffProvided ==
    ListIssued =>
        request.url = ListUrl(op, SelectSeq(ListValues(op, input[1]), IsProvided))

\* An accepted update: one the facade is asked for with a non-empty string,
\* or one the transport adapter is asked for, which accepts every argument.
AcceptedUpdate(name) ==
    /\ pc = "idle"
    /\ \/ op' = name /\ input'[1].t = "string" /\ input'[1].s # ""
       \/ op' = "HTTPClient." \o name

\* C27: after every step the stored configuration and the values applied to
\* requests agree (the Authorization header is Bearer and the stored key, the
\* base URL of a request is the stored base URL); an accepted updateApiKey or
\* updateBaseUrl stores its argument and nothing else, and every other step,
\* a rejected update among them, leaves the stored configuration as it is: so
\* both are the argument of the last accepted update, or the value of
\* construction.
C27_StoredAndAppliedAgree ==
    [][ /\ client'.defaults.headers.Authorization
              = Str("Bearer " \o TemplateText(client'.config.apiKey))
        /\ client'.defaults.baseURL = client'.config.baseUrl
        /\ \A req \in {queued', request'} \ {None} :
              /\ req.headers.Authorization
                    = Str("Bearer " \o TemplateText(client'.config.apiKey))
              /\ req.baseURL = client'.config.baseUrl
        /\ client'.config =
              IF AcceptedUpdate("updateApiKey")
              THEN [client.config EXCEPT !.apiKey = input'[1]]
              ELSE IF AcceptedUpdate("updateBaseUrl")
              THEN [client.config EXCEPT !.baseUrl = input'[1]]
              ELSE client.config
      ]_vars

C27_Witness ==
    /\ pc = "awaiting"
    /\ op = "healthCheck"
    /\ request # None
    /\ client.config.apiKey = Str("k2")
    /\ client.config.baseUrl = Str("https://staging.mayl.ng")
    /\ request.headers.Authorization = Str("Bearer k2")
    /\ request.baseURL = Str("https://staging.mayl.ng")

\* C28 (as claimed): healthCheck returns status 'healthy' only when the
\* server answered with an envelope whose success is true; an envelope with
\* success false never yields 'healthy'.
C28_HealthyOnlyOnSuccess ==
    (op = "healthCheck" /\ pc = "returned" /\ result.f.status = Str("healthy")) =>
        /\ Answered
        /\ outcome.response.data.t = "object"
        /\ outcome.response.data.f.success = Bool(TRUE)

\* The kinds of error handleAPIError produces.
TransportKinds ==
    {"AuthenticationError", "AuthorizationError", "NotFoundError",
     "ValidationError", "RateLimitError", "ServerError", "NetworkError",
     "TimeoutError"}

\* C29 (as claimed): the error the transport produces for a request, whatever
\* its kind, carries as requestId the X-Request-ID that was attached to that
\* request, which is not the identifier of the request before it.
C29_ErrorCarriesRequestId ==
    thrown # None =>
        /\ thrown.kind \in TransportKinds
        /\ request # None
        /\ request.headers.XRequestID \in RequestIds
        /\ thrown.requestId = request.headers.XRequestID
        /\ previous # None => thrown.requestId # previous

\* C30 (as claimed): a client constructed from an accepted configuration has
\* a base URL that is a non-empty string and a timeout that is a positive
\* number, stored and handed to axios alike; the production base URL applies
\* when the caller gave none, undefined or an empty one, and 30000 ms when the
\* caller gave no timeout or undefined.
C30_EffectiveDefaults ==
    (op = "new InboxSDK" /\ pc = "returned") =>
        LET given == input[1].f
            baseUrl == client.config.baseUrl
            timeout == client.config.timeout
        IN  /\ baseUrl.t = "string" /\ baseUrl.s # ""
            /\ PositiveNumber(timeout)
            /\ client.defaults.baseURL = baseUrl
            /\ client.defaults.timeout = timeout
            /\ given.baseUrl \in {Missing, Undef, Str("")} =>
                  baseUrl = Str("http://api.mayl.ng:8080")
            /\ given.timeout \in {Missing, Undef} => timeout = Num(30000)

=============================================================================
